---- MODULE Spec2Model ----
(***************************************************************************)
(* Arco personalization core: the quiz persona classifier (quiz-logic),    *)
(* the persona cookie store, the persona-keyed variant tables and the      *)
(* page assembly engine (composePage).                                     *)
(*                                                                         *)
(* JavaScript values are modelled as follows.                              *)
(*  - A string is a sequence of tokens.  A token is either a run of URI    *)
(*    unreserved characters ("upgrader", "morning-minimalist"), one of the *)
(*    single characters ";", "%", " ", "=", or a percent escape ("%3B").   *)
(*  - A completion is a record: a normal return of a value, or a throw.    *)
(*  - An instant is [s, ms]: whole seconds and the milliseconds within the *)
(*    second (Date.getTime() split so that 90 days of milliseconds fit).   *)
(***************************************************************************)
EXTENDS Integers, Sequences, FiniteSets, TLC

VARIABLES
    answers,    \* classifier: the answer vector handed to calculatePersona
    scores,     \* classifier: the score vector accumulated by the call
    winner,     \* classifier: completion of the calculatePersona call
    reached,    \* classifier: the personas returned by the calls made so far
    blockCall,  \* classifier: the call of the quiz block's own calculatePersona
    now,        \* the wall clock (new Date())
    jar,        \* the browser cookie jar behind document.cookie
    access,     \* whether the document may use document.cookie ("granted", "denied")
    stored,     \* store: bookkeeping of the latest setPersonaCookie call
    readout,    \* store: completion of the latest getPersonaFromCookie call
    lookup,     \* registry: arguments and completions of the latest lookups
    args,       \* assembler: arguments of the latest composePage call
    last,       \* assembler: completion of the latest composePage call
    prev,       \* assembler: completion of the composePage call before it
    heap,       \* assembler: the baseContent object and the assembled object after the call
    content,    \* quiz: the authored quiz (number of questions, options of a question)
    tabs,       \* quiz: per browser tab, the state of the quiz block of its page
    writes,     \* quiz: the cookie writes of the quiz blocks, in the order made
    session,    \* banner: the session storage of the browsing session
    banner      \* banner: the personalization banner of the page loaded

vars ==
    <<answers, scores, winner, reached, blockCall, now, jar, access, stored, readout, lookup,
      args, last, prev, heap, content, tabs, writes, session, banner>>

classifierVars == <<answers, scores, winner, reached, blockCall>>
storeVars == <<now, jar, access, stored, readout>>
registryVars == <<lookup>>
assemblerVars == <<args, last, prev, heap>>
quizVars == <<content, tabs, writes>>
bannerVars == <<session, banner>>

(***************************************************************************)
(* Bounds of the model.                                                    *)
(***************************************************************************)
MaxLen == 5             \* longest answer vector (one more than the questions)
MaxAnswer == 4          \* largest small answer index (one beyond the options)
MaxPeriods == 4         \* the clock runs up to MaxPeriods * 30 days
MaxHalfSeconds == 2     \* half-second offsets around each 30-day instant
MaxLimit == 7           \* largest list limit (one beyond the longest list)
MaxQuestions == 4       \* most questions authored in a quiz
MaxOptions == 4         \* most options authored for a question
MaxTabQuestions == 1    \* most questions of the quiz that two tabs run at once
MaxTimers == 2          \* most dismiss timers pending on one page
MaxWrites == 3          \* most cookie writes a visitor retaking the quiz makes

(***************************************************************************)
(* Values.                                                                 *)
(***************************************************************************)
W(word) == <<word>>

Return(v) == [type |-> "normal", value |-> v]
Throw(e) == [type |-> "throw", value |-> W(e)]
Pending == [type |-> "pending"]
IsReturn(c) == c.type = "normal"
IsThrow(c) == c.type = "throw"

\* null and undefined: "#" marks a token that is no part of any string.
Null == <<"#null">>
Undefined == <<"#undefined">>

Min(a, b) == IF a < b THEN a ELSE b

(***************************************************************************)
(* quiz-logic: PERSONAS, SCORING, calculatePersona.                        *)
(***************************************************************************)
PERSONAS == <<
    W("morning-minimalist"),
    W("upgrader"),
    W("craft-barista"),
    W("traveller"),
    W("non-barista"),
    W("office-manager") >>

SCORING == <<
    << <<2, 0, 0, 0, 1, 0>>,
       <<1, 1, 0, 0, 0, 0>>,
       <<0, 0, 1, 1, 0, 0>>,
       <<0, 0, 0, 0, 2, 0>> >>,
    << <<1, 0, 0, 0, 2, 0>>,
       <<2, 1, 0, 0, 0, 0>>,
       <<0, 1, 2, 0, 0, 0>>,
       <<0, 0, 0, 0, 2, 1>> >>,
    << <<1, 1, 0, 0, 0, 0>>,
       <<1, 0, 0, 0, 1, 0>>,
       <<0, 0, 0, 3, 0, 0>>,
       <<0, 0, 0, 0, 0, 3>> >>,
    << <<1, 0, 0, 0, 1, 0>>,
       <<0, 1, 0, 0, 2, 0>>,
       <<0, 2, 1, 0, 0, 0>>,
       <<0, 0, 3, 0, 0, 0>> >> >>

ZeroScores == <<0, 0, 0, 0, 0, 0>>

\* JavaScript array indices are 0-based, TLA+ sequences 1-based: HasIndex(a, i)
\* says a[i] is defined, and At(a, i) is a[i] then.
HasIndex(array, i) == i + 1 \in DOMAIN array
At(array, i) == array[i + 1]

\* Faulty variant: the index is used as given.
ClampOptionUnclamped(answerIndex, nOptions) == answerIndex
\* Faulty variant: an index beyond the options wraps to the first option.
ClampOptionToFirst(answerIndex, nOptions) == IF answerIndex >= nOptions THEN 0 ELSE answerIndex
\* Math.min(answerIndex, questionScoring.length - 1)
ClampOption(answerIndex, nOptions) == Min(answerIndex, nOptions - 1)

\* Faulty variant: an unanswered entry (-1) is scored like an answer.
CountsUnanswered(questionIndex, answerIndex) == questionIndex < Len(SCORING)
\* if (questionIndex < SCORING.length && answerIndex >= 0)
Counts(questionIndex, answerIndex) ==
    questionIndex < Len(SCORING) /\ answerIndex >= 0

\* Faulty variant: the points replace the score (= for +=).
AddPointsOverwrite(acc, optionScoring) ==
    [personaIndex \in DOMAIN acc |->
        IF personaIndex \in DOMAIN optionScoring THEN optionScoring[personaIndex] ELSE 0]
\* Faulty variant: the points go to the persona after the one they are for.
AddPointsShifted(acc, optionScoring) ==
    [personaIndex \in DOMAIN acc |->
        acc[personaIndex]
        + (IF personaIndex - 1 \in DOMAIN optionScoring THEN optionScoring[personaIndex - 1]
           ELSE 0)]
\* optionScoring.forEach((points, personaIndex) => scores[personaIndex] += points)
AddPoints(acc, optionScoring) ==
    [personaIndex \in DOMAIN acc |->
        acc[personaIndex]
        + (IF personaIndex \in DOMAIN optionScoring THEN optionScoring[personaIndex] ELSE 0)]

\* answers.forEach((answerIndex, questionIndex) => ...), from questionIndex on.
\* Completes with the score vector, or throws the TypeError of
\* optionScoring.forEach when the option row is undefined.
RECURSIVE Accumulate(_, _, _)
Accumulate(ans, questionIndex, acc) ==
    IF questionIndex >= Len(ans) THEN Return(acc)
    ELSE LET answerIndex == At(ans, questionIndex) IN
         IF Counts(questionIndex, answerIndex)
         THEN LET questionScoring == At(SCORING, questionIndex)
                  option == ClampOption(answerIndex, Len(questionScoring))
              IN  IF ~HasIndex(questionScoring, option) THEN Throw("TypeError")
                  ELSE Accumulate(ans, questionIndex + 1,
                                  AddPoints(acc, At(questionScoring, option)))
         ELSE Accumulate(ans, questionIndex + 1, acc)

\* Faulty variant: the score is compared with 0, not with the running maximum.
BeatsZero(score, maxScore) == score > 0
\* Faulty variant: a tie replaces the winner.
BeatsOrTies(score, maxScore) == score >= maxScore
\* if (score > maxScore)
Beats(score, maxScore) == score > maxScore

\* let maxScore = 0; let winnerIndex = 0; scores.forEach((score, index) => ...)
RECURSIVE FindWinner(_, _, _, _)
FindWinner(sc, index, maxScore, winnerIndex) ==
    IF index >= Len(sc) THEN winnerIndex
    ELSE IF Beats(At(sc, index), maxScore)
         THEN FindWinner(sc, index + 1, At(sc, index), index)
         ELSE FindWinner(sc, index + 1, maxScore, winnerIndex)

ScoresOf(ans) == Accumulate(ans, 0, ZeroScores)

\* SCORING.length, and the index of the last authored option of the question at
\* position q of a vector.
Questions == Len(SCORING)
LastOption(q) == Len(SCORING[IF q \in DOMAIN SCORING THEN q ELSE 1]) - 1

\* The fully answered vectors in order: the first, the last, and the one after v.
FirstVector == [q \in 1..Questions |-> 0]
LastVector == [q \in 1..Questions |-> LastOption(q)]
RECURSIVE Successor(_)
Successor(v) ==
    IF v = <<>> THEN <<>>
    ELSE IF v[Len(v)] < LastOption(Len(v)) THEN [v EXCEPT ![Len(v)] = @ + 1]
    ELSE Append(Successor(SubSeq(v, 1, Len(v) - 1)), 0)

\* return PERSONAS[winnerIndex]
calculatePersona(ans) ==
    LET acc == ScoresOf(ans) IN
    IF IsThrow(acc) THEN acc
    ELSE Return(At(PERSONAS, FindWinner(acc.value, 0, 0, 0)))

(***************************************************************************)
(* The quiz block's own copy of the classifier.                            *)
(***************************************************************************)
Block_PERSONAS == <<
    W("morning-minimalist"),
    W("upgrader"),
    W("craft-barista"),
    W("traveller"),
    W("non-barista"),
    W("office-manager") >>

Block_SCORING == <<
    << <<2, 0, 0, 0, 1, 0>>,
       <<1, 1, 0, 0, 0, 0>>,
       <<0, 0, 1, 1, 0, 0>>,
       <<0, 0, 0, 0, 2, 0>> >>,
    << <<1, 0, 0, 0, 2, 0>>,
       <<2, 1, 0, 0, 0, 0>>,
       <<0, 1, 2, 0, 0, 0>>,
       <<0, 0, 0, 0, 2, 1>> >>,
    << <<1, 1, 0, 0, 0, 0>>,
       <<1, 0, 0, 0, 1, 0>>,
       <<0, 0, 0, 3, 0, 0>>,
       <<0, 0, 0, 0, 0, 3>> >>,
    << <<1, 0, 0, 0, 1, 0>>,
       <<0, 1, 0, 0, 2, 0>>,
       <<0, 2, 1, 0, 0, 0>>,
       <<0, 0, 3, 0, 0, 0>> >> >>

\* const scores = [0, 0, 0, 0, 0, 0]
Block_ZeroScores == <<0, 0, 0, 0, 0, 0>>

\* Faulty variant: the block scores an unanswered entry (-1) like an answer.
Block_CountsUnanswered(questionIndex, answerIndex) == questionIndex < Len(Block_SCORING)
\* if (questionIndex < SCORING.length && answerIndex >= 0)
Block_Counts(questionIndex, answerIndex) ==
    questionIndex < Len(Block_SCORING) /\ answerIndex >= 0

\* Math.min(answerIndex, questionScoring.length - 1)
Block_ClampOption(answerIndex, nOptions) == Min(answerIndex, nOptions - 1)

\* optionScoring.forEach((points, personaIndex) => scores[personaIndex] += points)
Block_AddPoints(acc, optionScoring) ==
    [personaIndex \in DOMAIN acc |->
        acc[personaIndex]
        + (IF personaIndex \in DOMAIN optionScoring THEN optionScoring[personaIndex] ELSE 0)]

\* answers.forEach((answerIndex, questionIndex) => ...), from questionIndex on.
RECURSIVE Block_Accumulate(_, _, _)
Block_Accumulate(ans, questionIndex, acc) ==
    IF questionIndex >= Len(ans) THEN Return(acc)
    ELSE LET answerIndex == At(ans, questionIndex) IN
         IF Block_Counts(questionIndex, answerIndex)
         THEN LET questionScoring == At(Block_SCORING, questionIndex)
                  option == Block_ClampOption(answerIndex, Len(questionScoring))
              IN  IF ~HasIndex(questionScoring, option) THEN Throw("TypeError")
                  ELSE Block_Accumulate(ans, questionIndex + 1,
                                        Block_AddPoints(acc, At(questionScoring, option)))
         ELSE Block_Accumulate(ans, questionIndex + 1, acc)

\* if (score > maxScore)
Block_Beats(score, maxScore) == score > maxScore

\* scores.forEach((score, index) => ...), from index on.
RECURSIVE Block_FindWinner(_, _, _, _)
Block_FindWinner(sc, index, maxScore, winnerIndex) ==
    IF index >= Len(sc) THEN winnerIndex
    ELSE IF Block_Beats(At(sc, index), maxScore)
         THEN Block_FindWinner(sc, index + 1, At(sc, index), index)
         ELSE Block_FindWinner(sc, index + 1, maxScore, winnerIndex)

Block_ScoresOf(ans) == Block_Accumulate(ans, 0, Block_ZeroScores)

\* function calculatePersona(answers) of the quiz block
Block_calculatePersona(ans) ==
    LET acc == Block_ScoresOf(ans) IN
    IF IsThrow(acc) THEN acc
    ELSE Return(At(Block_PERSONAS, Block_FindWinner(acc.value, 0, 0, 0)))

(***************************************************************************)
(* Time.  The clock moves among the instants k * 30 days + h * 500 ms.     *)
(***************************************************************************)
RetentionDays == 90                     \* setPersonaCookie: 90 * 24 * 60 * 60 * 1000
MsPerSecond == 1000
SecondsPerDay == 24 * 60 * 60
LegacyRetentionDays == 30               \* setCookie('arco-brew-style', persona, 30)
PeriodDays == LegacyRetentionDays

Instants ==
    { [s |-> k * PeriodDays * SecondsPerDay + (h \div 2),
       ms |-> (h % 2) * (MsPerSecond \div 2)] :
        k \in 0..MaxPeriods, h \in 0..MaxHalfSeconds }

Before(a, b) == a.s < b.s \/ (a.s = b.s /\ a.ms < b.ms)

\* date.setTime(date.getTime() + days * 24 * 60 * 60 * 1000): a whole number of
\* seconds is added, the milliseconds within the second stay.
AddDays(t, days) == [s |-> t.s + days * SecondsPerDay, ms |-> t.ms]

\* date.toUTCString() prints day, month, year, hours, minutes and seconds: the
\* milliseconds are dropped.  The text is represented by the second it names.
\* (Faulty variant: the second is rounded up.)
toUTCStringRounded(t) == IF t.ms > 0 THEN t.s + 1 ELSE t.s
toUTCString(t) == t.s

\* The instant an Expires attribute names.
ParseExpires(text) == [s |-> text, ms |-> 0]

(***************************************************************************)
(* Strings: encodeURIComponent, decodeURIComponent.                        *)
(***************************************************************************)
Reserved == {";", "%", " ", "="}
Escapes == {"%3B", "%25", "%20", "%3D"}

EscapeOf(ch) ==
    CASE ch = ";" -> "%3B"
      [] ch = "%" -> "%25"
      [] ch = " " -> "%20"
      [] ch = "=" -> "%3D"

UnescapeOf(esc) ==
    CASE esc = "%3B" -> ";"
      [] esc = "%25" -> "%"
      [] esc = "%20" -> " "
      [] esc = "%3D" -> "="

\* Unreserved runs pass, every other character becomes its percent escape.
encodeURIComponent(str) ==
    [i \in DOMAIN str |-> IF str[i] \in Reserved THEN EscapeOf(str[i]) ELSE str[i]]

\* Percent escapes become their character; a "%" that starts no escape throws.
decodeURIComponent(str) ==
    IF \E i \in DOMAIN str : str[i] = "%" THEN Throw("URIError")
    ELSE Return([i \in DOMAIN str |->
                    IF str[i] \in Escapes THEN UnescapeOf(str[i]) ELSE str[i]])

\* The tokens of str before the first token ch (all of str when there is none).
RECURSIVE UpTo(_, _)
UpTo(str, ch) ==
    IF str = <<>> \/ Head(str) = ch THEN <<>>
    ELSE <<Head(str)>> \o UpTo(Tail(str), ch)

\* The tokens of str after the first token ch (none when there is no ch).
RECURSIVE After(_, _)
After(str, ch) ==
    IF str = <<>> THEN <<>>
    ELSE IF Head(str) = ch THEN Tail(str)
    ELSE After(Tail(str), ch)

(***************************************************************************)
(* The cookie jar behind document.cookie.                                  *)
(***************************************************************************)
ARCO_PERSONA == W("arco_persona")
ARCO_BREW_STYLE == W("arco-brew-style")
CookieNames == <<ARCO_BREW_STYLE, ARCO_PERSONA>>

NoCookie == [present |-> FALSE, value |-> <<>>, expires |-> [s |-> 0, ms |-> 0]]
EmptyJar == [i \in DOMAIN CookieNames |-> NoCookie]

SlotOf(name) == CHOOSE i \in DOMAIN CookieNames : CookieNames[i] = name

\* `${name}=${encodeURIComponent(value)};expires=${date.toUTCString()};path=/;SameSite=Lax`
\* The text up to the expires attribute is kept as tokens; the attributes that
\* follow are the same in every write: root path, SameSite=Lax.
CookieText(name, encoded, expiresText) ==
    [pair |-> name \o <<"=">> \o encoded \o <<";">>, expires |-> expiresText]

\* Faulty variant: a cookie that is live already is kept, the first write wins.
AssignDocumentCookieKeep(j, text, t) ==
    LET name == UpTo(text.pair, "=")
        value == UpTo(After(text.pair, "="), ";")
        expires == ParseExpires(text.expires)
    IN  IF \A i \in DOMAIN CookieNames : CookieNames[i] # name THEN j
        ELSE IF j[SlotOf(name)].present /\ Before(t, j[SlotOf(name)].expires) THEN j
        ELSE [j EXCEPT ![SlotOf(name)] =
                 IF Before(t, expires)
                 THEN [present |-> TRUE, value |-> value, expires |-> expires]
                 ELSE NoCookie]
\* Assignment to document.cookie: the browser takes the name before the first "="
\* and the value up to the first ";", and stores the cookie under its name with
\* the expiry date; a date that is not in the future removes the cookie.
AssignDocumentCookie(j, text, t) ==
    LET name == UpTo(text.pair, "=")
        value == UpTo(After(text.pair, "="), ";")
        expires == ParseExpires(text.expires)
    IN  IF \A i \in DOMAIN CookieNames : CookieNames[i] # name THEN j
        ELSE [j EXCEPT ![SlotOf(name)] =
                 IF Before(t, expires)
                 THEN [present |-> TRUE, value |-> value, expires |-> expires]
                 ELSE NoCookie]

\* A cookie is sent and listed until its expiry date.
Live(cookie, t) == cookie.present /\ Before(t, cookie.expires)

\* Reading document.cookie: the name=value pairs of the live cookies, joined by "; ".
DocumentCookie(j, t) ==
    LET pairs == [i \in DOMAIN CookieNames |-> [name |-> CookieNames[i], value |-> j[i].value]]
    IN  SelectSeq(pairs, LAMBDA p : Live(j[SlotOf(p.name)], t))

\* Faulty variant: the whole match (match[0], the name included) is returned.
MatchCookieWhole(cookieText, name) ==
    LET hits == SelectSeq(cookieText, LAMBDA p : p.name = name)
    IN  IF hits = <<>> THEN Null ELSE name \o <<"=">> \o UpTo(Head(hits).value, ";")
\* document.cookie.match(/(?:^|;\s*)name=([^;]*)/): the first pair of that name;
\* match[1] is its value up to the first ";".
MatchCookie(cookieText, name) ==
    LET hits == SelectSeq(cookieText, LAMBDA p : p.name = name)
    IN  IF hits = <<>> THEN Null ELSE UpTo(Head(hits).value, ";")

\* Getting or setting document.cookie in a document that may not use cookies (a
\* frame without same-origin access, an opaque origin) throws a SecurityError
\* before anything else happens; otherwise the access completes as given.
OnDocumentCookie(acc, completion) ==
    IF acc = "denied" THEN Throw("SecurityError") ELSE completion

\* Faulty variant: a cookie is written only while none of that name is live.
setCookieIfUnset(j, name, value, days, t) ==
    IF Live(j[SlotOf(name)], t) THEN j
    ELSE AssignDocumentCookie(j,
             CookieText(name, encodeURIComponent(value), toUTCString(AddDays(t, days))), t)
\* setCookie(name, value, days) of the quiz block
setCookie(j, name, value, days, t) ==
    AssignDocumentCookie(j,
        CookieText(name, encodeURIComponent(value), toUTCString(AddDays(t, days))), t)

\* setPersonaCookie(personaTag)
setPersonaCookie(j, personaTag, t) ==
    AssignDocumentCookie(j,
        CookieText(ARCO_PERSONA, encodeURIComponent(personaTag),
                   toUTCString(AddDays(t, RetentionDays))), t)

\* getPersonaFromCookie(): match ? decodeURIComponent(match[1]) : null
getPersonaFromCookie(j, t) ==
    LET match == MatchCookie(DocumentCookie(j, t), ARCO_PERSONA)
    IN  IF match = Null THEN Return(Null) ELSE decodeURIComponent(match)

(***************************************************************************)
(* JavaScript values of the assembly engine.  Each kind of value is a      *)
(* record with a field of its own, so that any two values compare.         *)
(***************************************************************************)
Str(tokens) == [str |-> tokens]         \* a string that the code computes with
Text(t) == [text |-> t]                 \* authored text, passed through as is
Num(n) == [num |-> n]
List(l) == [list |-> l]
Obj(fields) == [obj |-> fields]         \* fields: property name -> value
Fn(name) == [fn |-> name]               \* a function object
NullValue == [null |-> TRUE]
UndefinedValue == [undef |-> TRUE]
DateValue(t) == [date |-> t]            \* new Date().toISOString(): to the millisecond

IsObj(v) == "obj" \in DOMAIN v
IsList(v) == "list" \in DOMAIN v

\* Objects, arrays and functions are truthy; null, undefined, 0 and "" are falsy.
Truthy(v) ==
    /\ v # NullValue
    /\ v # UndefinedValue
    /\ v # Num(0)
    /\ v # Str(<<>>)
    /\ v # Text("")

\* A persona tag (a string, null or undefined) as a value.
ToValue(tag) ==
    IF tag = Null THEN NullValue
    ELSE IF tag = Undefined THEN UndefinedValue
    ELSE Str(tag)

\* A tag is falsy when it is null, undefined or the empty string.
TruthyTag(tag) == tag # Null /\ tag # Undefined /\ tag # <<>>

RECURSIVE Concat(_)
Concat(str) == IF str = <<>> THEN "" ELSE Head(str) \o Concat(Tail(str))

\* obj[key]: the key is converted to a property name.
ToPropertyKey(tag) ==
    IF tag = Null THEN "null"
    ELSE IF tag = Undefined THEN "undefined"
    ELSE Concat(tag)

\* Properties every object literal inherits from Object.prototype.
ObjectPrototype ==
    ("constructor" :> Fn("Object"))
    @@ ("toString" :> Fn("toString"))
    @@ ("hasOwnProperty" :> Fn("hasOwnProperty"))
    @@ ("__proto__" :> Obj(<<>>))

\* obj[key] on an object literal: an own property, else an inherited one, else undefined.
Get(fields, key) ==
    IF key \in DOMAIN fields THEN fields[key]
    ELSE IF key \in DOMAIN ObjectPrototype THEN ObjectPrototype[key]
    ELSE UndefinedValue

(***************************************************************************)
(* assembly-engine: the persona-keyed variant tables.  Of each entry the   *)
(* fields that tell the entries apart are kept.                            *)
(***************************************************************************)
Hero(headline, url) ==
    Obj(("headline" :> Text(headline)) @@ ("cta" :> Text(url)))

HERO_VARIANTS ==
    ("default" :> Hero("Precision Brewing, Beautiful Design", "/products/espresso-machines"))
    @@ ("morning-minimalist" :> Hero("One perfect cup. Every morning.", "/products/pdp-canonical/arco-primo"))
    @@ ("upgrader" :> Hero("Ready for the real thing.", "/products/comparison/arco-primo-vs-arco-doppio"))
    @@ ("craft-barista" :> Hero("Built for the obsessed.", "/products/pdp-canonical/arco-studio-pro"))
    @@ ("traveller" :> Hero("Espresso, everywhere.", "/products/pdp-canonical/arco-viaggio"))
    @@ ("non-barista" :> Hero("Great coffee. No barista required.", "/products/pdp-canonical/arco-automatico"))
    @@ ("office-manager" :> Hero("Office coffee that people actually look forward to.", "/tools/calculators/capsule-to-bean-cost-comparison"))

PRODUCT_RECS ==
    ("default" :> List(<<"arco-primo", "arco-doppio", "arco-studio", "arco-macinino", "arco-preciso", "arco-zero">>))
    @@ ("morning-minimalist" :> List(<<"arco-nano", "arco-primo", "arco-macinino", "arco-filtro", "arco-doppio", "arco-preciso">>))
    @@ ("upgrader" :> List(<<"arco-doppio", "arco-studio", "arco-preciso", "arco-primo", "arco-macinino", "arco-zero">>))
    @@ ("craft-barista" :> List(<<"arco-studio-pro", "arco-zero", "arco-studio", "arco-preciso", "arco-filtro", "arco-doppio">>))
    @@ ("traveller" :> List(<<"arco-viaggio", "arco-nano", "arco-macinino", "arco-primo", "arco-filtro", "arco-doppio">>))
    @@ ("non-barista" :> List(<<"arco-automatico", "arco-nano", "arco-primo", "arco-macinino", "arco-doppio", "arco-preciso">>))
    @@ ("office-manager" :> List(<<"arco-ufficio", "arco-doppio", "arco-preciso", "arco-studio", "arco-automatico", "arco-macinino">>))

BLOG_FEEDS ==
    ("default" :> List(<<"why-your-grinder-matters-more-than-your-machine", "a-visit-to-our-workshop", "the-architect-who-built-a-coffee-corner">>))
    @@ ("morning-minimalist" :> List(<<"10-most-common-beginner-mistakes", "how-to-dial-in-espresso-in-under-10-minutes", "how-to-store-beans-properly">>))
    @@ ("upgrader" :> List(<<"why-your-grinder-matters-more-than-your-machine", "pre-infusion-what-it-is-and-why-arco-uses-it", "how-to-clean-a-group-head">>))
    @@ ("craft-barista" :> List(<<"why-arco-chose-brass-for-the-studio-boiler", "blind-tasting-your-espresso", "calibrating-a-burr-grinder">>))
    @@ ("traveller" :> List(<<"the-van-lifer-and-the-viaggio", "espresso-bars-worth-visiting-in-milan", "altitude-and-espresso">>))
    @@ ("non-barista" :> List(<<"10-most-common-beginner-mistakes", "descaling-step-by-step", "how-to-store-beans-properly">>))
    @@ ("office-manager" :> List(<<"the-startup-office-upgrade", "descaling-step-by-step", "coffee-certifications-explained">>))

Cta(archetype, url) ==
    Obj(("archetype" :> Text(archetype)) @@ ("cta" :> Text(url)))

EXPERIENCE_CTAS ==
    ("default" :> Cta("Discover Your Style", "/experiences/core/morning-minimalist"))
    @@ ("morning-minimalist" :> Cta("The Morning Minimalist", "/experiences/core/morning-minimalist"))
    @@ ("upgrader" :> Cta("The Upgrade Path", "/experiences/core/the-upgrade-path"))
    @@ ("craft-barista" :> Cta("Craft at Home", "/experiences/core/craft-at-home"))
    @@ ("traveller" :> Cta("Espresso Anywhere", "/experiences/core/espresso-anywhere"))
    @@ ("non-barista" :> Cta("The Non-Barista", "/experiences/core/the-non-barista"))
    @@ ("office-manager" :> Cta("Office Solutions", "/bundles/persona-kits/upgrader-kit"))

Nav(promote, demote, label) ==
    Obj(("promote" :> List(promote)) @@ ("demote" :> List(demote)) @@ ("cta" :> Text(label)))

\* const overrides = {...} of getNavigationOverride: it has no default entry.
NAV_OVERRIDES ==
    ("morning-minimalist" :> Nav(<<"/products/espresso-machines", "/guides/fundamentals/your-first-week-with-a-machine">>, <<"/guides/advanced/flow-control-profiling">>, "Your Morning Setup"))
    @@ ("upgrader" :> Nav(<<"/products/comparison/arco-primo-vs-arco-doppio", "/guides/intermediate/dialing-in-new-beans">>, <<"/guides/fundamentals/tamping-technique">>, "Find Your Upgrade"))
    @@ ("craft-barista" :> Nav(<<"/guides/advanced/flow-control-profiling", "/products/espresso-machines">>, <<"/guides/fundamentals/what-is-extraction">>, "Pro Setup"))
    @@ ("traveller" :> Nav(<<"/blog/travel/espresso-bars-worth-visiting-in-milan", "/products/espresso-machines">>, <<"/guides/advanced/flow-control-profiling">>, "Travel Gear"))
    @@ ("non-barista" :> Nav(<<"/products/espresso-machines", "/guides/fundamentals/your-first-week-with-a-machine">>, <<"/guides/advanced/tds-and-extraction-yield">>, "Easy Setup"))
    @@ ("office-manager" :> Nav(<<"/tools/calculators/capsule-to-bean-cost-comparison", "/products/espresso-machines">>, <<"/guides/advanced/flow-control-profiling">>, "Office Solutions"))

\* { promote: [], demote: [], cta: null }
NavFallback ==
    Obj(("promote" :> List(<<>>)) @@ ("demote" :> List(<<>>)) @@ ("cta" :> NullValue))

(***************************************************************************)
(* assembly-engine: the lookups.                                           *)
(***************************************************************************)
\* Faulty variant: the limit is ignored.
SliceAll(l, end) == l
\* array.slice(0, end): a negative end counts from the end of the array.
Slice(l, end) ==
    LET final == IF end < 0 THEN (IF Len(l) + end < 0 THEN 0 ELSE Len(l) + end)
                 ELSE Min(end, Len(l))
    IN  SubSeq(l, 1, final)

\* TABLE[personaTag] || TABLE.default
Resolve(table, personaTag) ==
    LET entry == Get(table, ToPropertyKey(personaTag))
    IN  IF Truthy(entry) THEN entry ELSE table["default"]

\* recs.slice(0, limit): a TypeError when recs has no slice method.
SliceOf(recs, limit) ==
    IF IsList(recs) THEN Return(List(Slice(recs.list, limit)))
    ELSE Throw("TypeError")

getHeroVariant(personaTag) == Return(Resolve(HERO_VARIANTS, personaTag))

getProductRecommendations(personaTag, limit) ==
    SliceOf(Resolve(PRODUCT_RECS, personaTag), limit)

getBlogFeed(personaTag, limit) ==
    SliceOf(Resolve(BLOG_FEEDS, personaTag), limit)

getExperienceCTA(personaTag) == Return(Resolve(EXPERIENCE_CTAS, personaTag))

\* overrides[personaTag] || { promote: [], demote: [], cta: null }
getNavigationOverride(personaTag) ==
    LET entry == Get(NAV_OVERRIDES, ToPropertyKey(personaTag))
    IN  Return(IF Truthy(entry) THEN entry ELSE NavFallback)

(***************************************************************************)
(* assembly-engine: composePage.                                           *)
(***************************************************************************)
\* Faulty variants: the record is never read; the record wins over the tag.
ResolveTagOnly(personaTag, j, t) == Return(IF TruthyTag(personaTag) THEN personaTag ELSE Null)
ResolveCookieFirst(personaTag, j, t) ==
    LET read == getPersonaFromCookie(j, t)
    IN  IF IsReturn(read) /\ read.value # Null THEN read ELSE Return(personaTag)
\* const persona = personaTag || getPersonaFromCookie()
ResolvePersona(personaTag, j, t) ==
    IF TruthyTag(personaTag) THEN Return(personaTag) ELSE getPersonaFromCookie(j, t)

\* const assembled = { ...baseContent }: spreading null or undefined gives {}.
Spread(baseContent) == IF IsObj(baseContent) THEN baseContent.obj ELSE <<>>

\* Faulty variant: assembled is baseContent itself (const assembled = baseContent).
AssembledObjectIsBase == "base"
\* const assembled = { ...baseContent }: the object that the branches and the
\* stamps write to is a new object, not baseContent.
AssembledObject == "assembled"

\* The two objects after a call of composePage(pageType, personaTag, baseContent)
\* that completed with `completion`: every write of the call goes to the assembled
\* object; baseContent and its persona_overrides are read only.
HeapAfter(baseContent, completion) ==
    [base |-> IF AssembledObject = "base" /\ IsReturn(completion) THEN completion.value
              ELSE baseContent,
     assembled |-> IF IsReturn(completion) THEN completion.value ELSE UndefinedValue]

\* assembled[name] = value
SetField(fields, name, value) == (name :> value) @@ fields

\* Faulty variant: fields authored in the base content win over the variants.
HomepageKeepBase(assembled, persona) ==
    LET products == getProductRecommendations(persona, 3)
        blog == getBlogFeed(persona, 3)
    IN  IF IsThrow(products) THEN products
        ELSE IF IsThrow(blog) THEN blog
        ELSE Return(assembled
                    @@ ("hero" :> getHeroVariant(persona).value)
                    @@ ("products" :> products.value)
                    @@ ("blog_feed" :> blog.value)
                    @@ ("experience_cta" :> getExperienceCTA(persona).value)
                    @@ ("nav_override" :> getNavigationOverride(persona).value))
\* The body of if (pageType === 'homepage'): completes with the fields, or throws
\* what a lookup throws.
Homepage(assembled, persona) ==
    LET hero == getHeroVariant(persona)
        products == getProductRecommendations(persona, 3)
        blog == getBlogFeed(persona, 3)
        cta == getExperienceCTA(persona)
        nav == getNavigationOverride(persona)
    IN  IF IsThrow(products) THEN products
        ELSE IF IsThrow(blog) THEN blog
        ELSE Return(SetField(SetField(SetField(SetField(SetField(assembled,
                 "hero", hero.value),
                 "products", products.value),
                 "blog_feed", blog.value),
                 "experience_cta", cta.value),
                 "nav_override", nav.value))

\* Faulty variant: keys already in the target are kept.
ObjectAssignKeepTarget(assembled, source) ==
    IF IsObj(source) THEN assembled @@ source.obj ELSE assembled
\* Object.assign(assembled, source): the own enumerable properties of source.
ObjectAssign(assembled, source) ==
    IF IsObj(source) THEN source.obj @@ assembled ELSE assembled

\* The body and the condition of
\*   if (pageType === 'pdp' && persona && baseContent.persona_overrides?.[persona])
\* for pageType 'pdp': reading a property of null or undefined throws.
Pdp(assembled, persona, baseContent) ==
    IF ~TruthyTag(persona) THEN Return(assembled)
    ELSE IF baseContent = NullValue \/ baseContent = UndefinedValue
    THEN Throw("TypeError")
    ELSE LET overrides == IF IsObj(baseContent)
                          THEN Get(baseContent.obj, "persona_overrides")
                          ELSE UndefinedValue
             entry == IF IsObj(overrides)
                      THEN Get(overrides.obj, ToPropertyKey(persona))
                      ELSE UndefinedValue
         IN  IF Truthy(entry) THEN Return(ObjectAssign(assembled, entry))
             ELSE Return(assembled)

\* Faulty variant: the persona is not stamped.
StampNothing(assembled, persona, t) == SetField(assembled, "_assembled_at", DateValue(t))
\* assembled._persona = persona; assembled._assembled_at = new Date().toISOString()
Stamp(assembled, persona, t) ==
    SetField(SetField(assembled, "_persona", ToValue(persona)), "_assembled_at", DateValue(t))

\* Faulty variant: every page type but 'pdp' gets the homepage fields.
composePageVariantsEverywhere(pageType, personaTag, baseContent, j, t) ==
    LET persona == ResolvePersona(personaTag, j, t)
    IN  IF IsThrow(persona) THEN persona
        ELSE LET assembled == Spread(baseContent)
                 branch == IF pageType = "pdp"
                           THEN Pdp(assembled, persona.value, baseContent)
                           ELSE Homepage(assembled, persona.value)
             IN  IF IsThrow(branch) THEN branch
                 ELSE Return(Obj(Stamp(branch.value, persona.value, t)))
\* export function composePage(pageType, personaTag, baseContent)
composePage(pageType, personaTag, baseContent, j, t) ==
    LET persona == ResolvePersona(personaTag, j, t)
    IN  IF IsThrow(persona) THEN persona
        ELSE LET assembled == Spread(baseContent)
                 branch == IF pageType = "homepage" THEN Homepage(assembled, persona.value)
                           ELSE IF pageType = "pdp"
                           THEN Pdp(assembled, persona.value, baseContent)
                           ELSE Return(assembled)
             IN  IF IsThrow(branch) THEN branch
                 ELSE Return(Obj(Stamp(branch.value, persona.value, t)))

(***************************************************************************)
(* The quiz blocks: the 6-persona quiz and the brew-style quiz.            *)
(***************************************************************************)
\* RESULT_PAGES of the 6-persona quiz
RESULT_PAGES ==
    ("morning-minimalist" :> Str(W("/experiences/core/morning-minimalist")))
    @@ ("upgrader" :> Str(W("/experiences/core/the-upgrade-path")))
    @@ ("craft-barista" :> Str(W("/experiences/core/craft-at-home")))
    @@ ("traveller" :> Str(W("/experiences/core/espresso-anywhere")))
    @@ ("non-barista" :> Str(W("/experiences/core/the-non-barista")))
    @@ ("office-manager" :> Str(W("/experiences/core/the-non-barista")))

\* RESULT_PAGES[persona] || '/experiences/core/morning-minimalist'
ResultUrl(persona) ==
    LET page == Get(RESULT_PAGES, ToPropertyKey(persona))
    IN  IF Truthy(page) /\ "str" \in DOMAIN page THEN page.str
        ELSE W("/experiences/core/morning-minimalist")

\* slugMap of getResultPage: the legacy slug of each canonical tag.
slugMap ==
    ("morning-minimalist" :> W("morning-minimalist"))
    @@ ("upgrader" :> W("the-upgrade-path"))
    @@ ("craft-barista" :> W("craft-at-home"))
    @@ ("traveller" :> W("espresso-anywhere"))
    @@ ("non-barista" :> W("the-non-barista"))
    @@ ("office-manager" :> W("the-non-barista"))

\* EXPERIENCE_TAGS of the brew-style quiz: the five legacy slugs.
EXPERIENCE_TAGS == <<
    W("morning-minimalist"),
    W("the-upgrade-path"),
    W("craft-at-home"),
    W("espresso-anywhere"),
    W("the-non-barista") >>

\* answers.join('-')
RECURSIVE Join(_)
Join(ans) ==
    IF ans = <<>> THEN ""
    ELSE IF Len(ans) = 1 THEN ToString(Head(ans))
    ELSE ToString(Head(ans)) \o "-" \o Join(Tail(ans))

\* mapping of resolveExperience (a key written twice keeps its last value)
MAPPING ==
    ("0-0-0" :> Str(W("morning-minimalist"))) @@ ("0-0-1" :> Str(W("morning-minimalist")))
    @@ ("0-1-0" :> Str(W("morning-minimalist"))) @@ ("1-1-1" :> Str(W("craft-at-home")))
    @@ ("1-1-0" :> Str(W("craft-at-home"))) @@ ("1-0-1" :> Str(W("the-upgrade-path")))
    @@ ("1-0-0" :> Str(W("the-upgrade-path"))) @@ ("0-1-1" :> Str(W("the-upgrade-path")))
    @@ ("2-2-2" :> Str(W("espresso-anywhere"))) @@ ("2-0-2" :> Str(W("espresso-anywhere")))
    @@ ("2-2-0" :> Str(W("espresso-anywhere"))) @@ ("2-0-0" :> Str(W("the-upgrade-path")))
    @@ ("2-1-2" :> Str(W("espresso-anywhere"))) @@ ("2-2-1" :> Str(W("espresso-anywhere")))
    @@ ("2-1-0" :> Str(W("craft-at-home"))) @@ ("2-1-1" :> Str(W("craft-at-home")))
    @@ ("2-0-1" :> Str(W("espresso-anywhere"))) @@ ("3-3-3" :> Str(W("the-non-barista")))
    @@ ("3-3-0" :> Str(W("the-non-barista"))) @@ ("3-3-1" :> Str(W("the-non-barista")))
    @@ ("3-3-2" :> Str(W("the-non-barista"))) @@ ("3-0-3" :> Str(W("the-non-barista")))
    @@ ("3-1-3" :> Str(W("the-non-barista"))) @@ ("3-2-3" :> Str(W("the-non-barista")))
    @@ ("0-3-3" :> Str(W("the-non-barista"))) @@ ("1-3-3" :> Str(W("the-non-barista")))
    @@ ("0-0-3" :> Str(W("morning-minimalist"))) @@ ("0-0-2" :> Str(W("morning-minimalist")))
    @@ ("1-1-2" :> Str(W("craft-at-home"))) @@ ("1-1-3" :> Str(W("craft-at-home")))
    @@ ("0-2-0" :> Str(W("espresso-anywhere"))) @@ ("0-2-1" :> Str(W("espresso-anywhere")))
    @@ ("0-2-2" :> Str(W("espresso-anywhere"))) @@ ("0-2-3" :> Str(W("espresso-anywhere")))
    @@ ("1-2-0" :> Str(W("craft-at-home"))) @@ ("1-2-1" :> Str(W("craft-at-home")))
    @@ ("1-2-2" :> Str(W("espresso-anywhere"))) @@ ("1-2-3" :> Str(W("espresso-anywhere")))
    @@ ("0-3-0" :> Str(W("morning-minimalist"))) @@ ("0-3-1" :> Str(W("the-upgrade-path")))
    @@ ("0-3-2" :> Str(W("espresso-anywhere"))) @@ ("1-3-0" :> Str(W("the-upgrade-path")))
    @@ ("1-3-1" :> Str(W("craft-at-home"))) @@ ("1-3-2" :> Str(W("espresso-anywhere")))
    @@ ("1-0-2" :> Str(W("the-upgrade-path"))) @@ ("1-0-3" :> Str(W("the-upgrade-path")))
    @@ ("3-0-0" :> Str(W("the-non-barista"))) @@ ("3-0-1" :> Str(W("the-non-barista")))
    @@ ("3-0-2" :> Str(W("the-non-barista"))) @@ ("3-1-0" :> Str(W("the-non-barista")))
    @@ ("3-1-1" :> Str(W("the-non-barista"))) @@ ("3-1-2" :> Str(W("the-non-barista")))
    @@ ("3-2-0" :> Str(W("the-non-barista"))) @@ ("3-2-1" :> Str(W("the-non-barista")))
    @@ ("3-2-2" :> Str(W("the-non-barista"))) @@ ("2-3-0" :> Str(W("espresso-anywhere")))
    @@ ("2-3-1" :> Str(W("espresso-anywhere"))) @@ ("2-3-2" :> Str(W("espresso-anywhere")))
    @@ ("2-3-3" :> Str(W("the-non-barista"))) @@ ("0-1-2" :> Str(W("the-upgrade-path")))
    @@ ("0-1-3" :> Str(W("the-upgrade-path")))

\* answers.forEach((a) => { if (a >= 0 && a < counts.length) counts[a] += 1; })
RECURSIVE CountAnswers(_, _)
CountAnswers(ans, counts) ==
    IF ans = <<>> THEN counts
    ELSE LET a == Head(ans) IN
         CountAnswers(Tail(ans),
             IF a >= 0 /\ a < Len(counts)
             THEN [counts EXCEPT ![a + 1] = @ + 1] ELSE counts)

\* counts.indexOf(Math.max(...counts))
IndexOfMax(counts) ==
    CHOOSE d \in 0..(Len(counts) - 1) :
        /\ \A k \in DOMAIN counts : counts[k] <= At(counts, d)
        /\ \A e \in 0..(d - 1) : At(counts, e) < At(counts, d)

\* resolveExperience(answers) of the brew-style quiz
resolveExperience(ans) ==
    LET direct == Get(MAPPING, Join(ans))
        dominant == IndexOfMax(CountAnswers(ans, <<0, 0, 0, 0>>))
    IN  IF Truthy(direct) /\ "str" \in DOMAIN direct THEN Return(direct.str)
        ELSE IF HasIndex(EXPERIENCE_TAGS, dominant)
        THEN Return(At(EXPERIENCE_TAGS, dominant))
        ELSE Return(At(EXPERIENCE_TAGS, 0))

\* The two quiz blocks a page can host.
QUIZ == "quiz"
BREW_STYLE == "brew-style"
Blocks == {QUIZ, BREW_STYLE}

\* setTimeout(() => onAnswer(optIdx), 400) and the setTimeout(..., 300) that
\* attaches the next step.
AnswerTimer(index, optIdx) == [kind |-> "answer", index |-> index, optIdx |-> optIdx]
AttachTimer(index) == [kind |-> "attach", index |-> index, optIdx |-> -1]

\* A tab without a quiz, and a tab after decorate(block): showQuestion(0) has
\* attached the first step, nothing is answered.
NoTab ==
    [block |-> "none", answers |-> <<>>, shown |-> -1, disabled |-> TRUE, timers |-> <<>>,
     pc |-> "quiz", persona |-> Null, href |-> Null, clicks |-> <<>>, calls |-> <<>>]
Decorated(block) ==
    [block |-> block, answers |-> <<>>, shown |-> 0, disabled |-> FALSE, timers |-> <<>>,
     pc |-> "quiz", persona |-> Null, href |-> Null, clicks |-> <<>>, calls |-> <<>>]

\* No handler of the tab is running: the page waits for events.
Waiting(t) == t.block # "none" /\ t.pc \in {"quiz", "redirected", "failed"}

\* Faulty variant: the option buttons stay enabled after a click.
DisableOptionsNot(t) == t
\* optionsGrid.querySelectorAll('.quiz-option').forEach((b) => { b.disabled = true; })
DisableOptions(t) == [t EXCEPT !.disabled = TRUE]

\* The click listener of an option button of the step shown.
ClickListener(t, optIdx) ==
    DisableOptions([t EXCEPT !.timers = Append(@, AnswerTimer(t.shown, optIdx)),
                             !.clicks = Append(@, [index |-> t.shown, optIdx |-> optIdx])])

\* renderQuestion for the next question: a step is attached already, so the new
\* step is attached by a timer.
showQuestion(t, index) ==
    IF t.shown >= 0 THEN [t EXCEPT !.timers = Append(@, AttachTimer(index))]
    ELSE [t EXCEPT !.shown = index, !.disabled = FALSE]

\* const persona = calculatePersona(answers) / const result = resolveExperience(answers)
Classify(t) ==
    LET result == IF t.block = QUIZ THEN Block_calculatePersona(t.answers)
                  ELSE resolveExperience(t.answers)
    IN  [t EXCEPT !.calls = Append(@, t.answers),
                  !.persona = IF IsReturn(result) THEN result.value ELSE Null,
                  !.pc = IF IsReturn(result) THEN "classified" ELSE "failed"]

\* The onAnswer callback of showQuestion(index), up to the first cookie write.
onAnswer(t, index, optIdx, total) ==
    LET pushed == [t EXCEPT !.answers = Append(@, optIdx)]
    IN  IF index + 1 < total THEN showQuestion(pushed, index + 1) ELSE Classify(pushed)

RemoveAt(seq, i) == SubSeq(seq, 1, i - 1) \o SubSeq(seq, i + 1, Len(seq))

(***************************************************************************)
(* The personalization banner block.                                       *)
(***************************************************************************)
ARCO_BANNER_DISMISSED == W("arco_banner_dismissed")

\* Session storage works ("ok"), throws on every access ("denied"), or throws on
\* setItem only ("full").
StorageModes == {"ok", "denied", "full"}

\* function getPersona() of the banner block
getPersona(j, t) ==
    LET match == MatchCookie(DocumentCookie(j, t), ARCO_PERSONA)
    IN  IF match = Null THEN Return(Null) ELSE decodeURIComponent(match)

\* sessionStorage.getItem('arco_banner_dismissed')
GetItem(store) ==
    IF store.mode = "denied" THEN Throw("SecurityError") ELSE Return(store.item)

\* sessionStorage.setItem('arco_banner_dismissed', 'true')
SetItem(store, value) ==
    IF store.mode = "ok" THEN [store EXCEPT !.item = value] ELSE store

\* function isDismissed(): try { return getItem(...) === 'true' } catch { return false }
isDismissed(store) ==
    IF IsThrow(GetItem(store)) THEN FALSE ELSE GetItem(store).value = W("true")

\* if (!persona || isDismissed()) { block.style.display = 'none'; return; }
BannerHidden(persona, store) == ~TruthyTag(persona) \/ isDismissed(store)

(***************************************************************************)
(* Inputs of the operations.                                               *)
(***************************************************************************)
PersonaSet == {PERSONAS[i] : i \in DOMAIN PERSONAS}

\* Answer entries: unanswered (-1), the authored options, indices beyond them.
AnswerValues == (-1..MaxAnswer) \cup {99}
AnswerVectors == UNION {[1..n -> AnswerValues] : n \in 0..MaxLen}

\* Tags handed to setPersonaCookie: the taxonomy, and strings outside it.
StoreTags ==
    PersonaSet \cup {W("unknown-tag"), <<"a", ";", "b">>, <<"50", "%">>, <<>>}

\* Tags handed to the lookups: the taxonomy, the default key, unknown strings,
\* names of inherited properties, the empty string, null and undefined.
RegistryTags ==
    PersonaSet \cup {W("default"), W("unknown-tag"), W("constructor"), W("toString"),
                     W("__proto__"), <<>>, Null, Undefined}
Limits == (-2)..MaxLimit

PageTypes == {"homepage", "pdp", "guide", "product-detail"}
ComposeTags ==
    {Null, Undefined, <<>>, W("upgrader"), W("craft-barista"), W("unknown-tag"),
     W("constructor")}
ComposeStoreTags == {W("upgrader"), W("traveller"), W("constructor")}

EmptyContent == Obj(<<>>)
HomeContent ==
    Obj(("title" :> Text("Arco")) @@ ("hero" :> Text("authored hero"))
        @@ ("products" :> List(<<"arco-zero">>)) @@ ("footer" :> Text("authored footer")))
\* { personaOverrides: { upgrader: { price: 10 } }, price: 20 } of the specification
PricedContent ==
    Obj(("price" :> Num(20))
        @@ ("persona_overrides" :> Obj("upgrader" :> Obj("price" :> Num(10)))))
NestedContent ==
    Obj(("title" :> Text("Arco Doppio")) @@ ("price" :> Num(20))
        @@ ("specs" :> Obj(("weight" :> Num(9)) @@ ("boilers" :> Num(2))))
        @@ ("persona_overrides" :>
               Obj(("upgrader" :> Obj(("specs" :> Obj("weight" :> Num(11)))
                                      @@ ("badge" :> Text("Your upgrade"))))
                   @@ ("craft-barista" :> Obj("title" :> Text("Doppio for the obsessed"))))))
BaseContents ==
    {EmptyContent, HomeContent, PricedContent, NestedContent, UndefinedValue}

\* Values other writers leave in the arco_persona cookie: a tag, and the raw text
\* "50%", which is no percent-encoding of anything.
ForeignValues == {W("upgrader"), <<"50", "%">>}

\* What the pages of a site hand to composePage when the tag is a canonical tag or
\* absent.
SiteTags == {Null, Undefined, W("upgrader")}
SiteContents == {PricedContent}

\* The instants the assembler runs are a retention window apart.
RetentionInstants ==
    {t \in Instants : t.ms = 0 /\ t.s % (RetentionDays * SecondsPerDay) = 0}

(***************************************************************************)
(* State.                                                                  *)
(***************************************************************************)
Epoch == [s |-> 0, ms |-> 0]
NotStored == [set |-> FALSE, tag |-> Null, at |-> Epoch, result |-> Pending]
NoRead == [done |-> FALSE, at |-> Epoch, result |-> Pending]
NoArgs == [called |-> FALSE]

NoBlockCall == [done |-> FALSE, scores |-> ZeroScores, result |-> Pending]
ClassifierIdle ==
    /\ answers = <<>> /\ scores = ZeroScores /\ winner = Pending /\ reached = {}
    /\ blockCall = NoBlockCall
StoreIdle ==
    now = Epoch /\ jar = EmptyJar /\ access = "granted" /\ stored = NotStored /\ readout = NoRead
RegistryIdle == lookup = Pending
NoHeap == [base |-> UndefinedValue, assembled |-> UndefinedValue]
AssemblerIdle == args = NoArgs /\ last = Pending /\ prev = Pending /\ heap = NoHeap
Tabs == {1, 2}
NoContent == [questions |-> 0, options |-> 0]
QuizIdle == content = NoContent /\ tabs = [tab \in Tabs |-> NoTab] /\ writes = <<>>

NoBanner ==
    [loaded |-> FALSE, display |-> "authored", hiding |-> FALSE, timers |-> 0,
     result |-> Pending, clicked |-> FALSE, shownAtLoad |-> FALSE, cookieAtLoad |-> FALSE,
     afterClick |-> FALSE]
BannerIdle == session = [mode |-> "ok", item |-> Null] /\ banner = NoBanner

\* The instant the record written at `at` expires: 90 days later, rounded down
\* to the whole second.
ExpiryOf(at) == [s |-> at.s + RetentionDays * SecondsPerDay, ms |-> 0]

\* The tag the canonical record holds at instant t, null when there is no record.
HeldTag(t) ==
    IF stored.set /\ Before(t, ExpiryOf(stored.at)) THEN stored.tag ELSE Null

(***************************************************************************)
(* Operations.                                                             *)
(***************************************************************************)
\* One call of calculatePersona(answers).
CalculatePersona ==
    /\ winner = Pending
    /\ winner' = calculatePersona(answers)
    /\ scores' = (IF IsReturn(ScoresOf(answers)) THEN ScoresOf(answers).value ELSE scores)
    /\ reached' = (IF IsReturn(winner') THEN reached \cup {winner'.value} ELSE reached)
    /\ UNCHANGED <<bannerVars, answers, blockCall, storeVars, registryVars, assemblerVars, quizVars>>

\* One call of the quiz block's own calculatePersona(answers).
BlockCalculatePersona ==
    /\ ~blockCall.done
    /\ blockCall' =
          [done |-> TRUE,
           scores |-> IF IsReturn(Block_ScoresOf(answers)) THEN Block_ScoresOf(answers).value
                      ELSE blockCall.scores,
           result |-> Block_calculatePersona(answers)]
    /\ UNCHANGED <<bannerVars, answers, scores, winner, reached, storeVars, registryVars,
                   assemblerVars, quizVars>>

\* The next call of a survey of calculatePersona over the fully answered vectors:
\* the call made has returned, the vector after it is handed in.
NextVector ==
    /\ winner # Pending
    /\ Len(answers) = Questions
    /\ answers # LastVector
    /\ answers' = Successor(answers)
    /\ scores' = ZeroScores
    /\ winner' = Pending
    /\ UNCHANGED <<bannerVars, reached, blockCall, storeVars, registryVars, assemblerVars, quizVars>>

\* One call of setPersonaCookie(personaTag).
SetPersonaCookie(personaTag) ==
    LET result == OnDocumentCookie(access, Return(Undefined)) IN
    /\ jar' = (IF IsReturn(result) THEN setPersonaCookie(jar, personaTag, now) ELSE jar)
    /\ stored' = [set |-> IsReturn(result), tag |-> personaTag, at |-> now,
                  result |-> result]
    /\ readout' = NoRead
    /\ UNCHANGED <<bannerVars, now, access, classifierVars, registryVars, assemblerVars,
                   quizVars>>

\* One call of getPersonaFromCookie().
GetPersonaFromCookie ==
    /\ readout' = [done |-> TRUE, at |-> now,
                   result |-> OnDocumentCookie(access, getPersonaFromCookie(jar, now))]
    /\ UNCHANGED <<bannerVars, now, jar, access, stored, classifierVars, registryVars, assemblerVars,
                   quizVars>>

\* Time passes, up to instant t.
Tick(t) ==
    /\ Before(now, t)
    /\ now' = t
    /\ UNCHANGED <<bannerVars, jar, access, stored, readout, classifierVars, registryVars, assemblerVars,
                   quizVars>>

\* Something other than setPersonaCookie (another script of the page, a Set-Cookie
\* header) sets the arco_persona cookie to a value as it stands, not encoded.
ForeignWrite(value) ==
    /\ jar' = AssignDocumentCookie(jar,
                  CookieText(ARCO_PERSONA, value, toUTCString(AddDays(now, RetentionDays))), now)
    /\ readout' = NoRead
    /\ UNCHANGED <<bannerVars, now, access, stored, classifierVars, registryVars, assemblerVars,
                   quizVars>>

\* One call of each of the five lookups.
Lookup(personaTag, limit) ==
    /\ lookup' = [type |-> "done", tag |-> personaTag, limit |-> limit,
                  hero |-> getHeroVariant(personaTag),
                  products |-> getProductRecommendations(personaTag, limit),
                  blog |-> getBlogFeed(personaTag, limit),
                  cta |-> getExperienceCTA(personaTag),
                  nav |-> getNavigationOverride(personaTag)]
    /\ UNCHANGED <<bannerVars, classifierVars, storeVars, assemblerVars, quizVars>>

\* The first call of composePage(pageType, personaTag, baseContent) of a run; the
\* calls that follow (ComposeAgain) repeat its arguments.
ComposePage(pageType, personaTag, baseContent) ==
    /\ ~args.called
    /\ args' = [called |-> TRUE, pageType |-> pageType, tag |-> personaTag,
                base |-> baseContent, held |-> HeldTag(now), heldPrev |-> Null]
    /\ last' = (IF TruthyTag(personaTag)
                THEN composePage(pageType, personaTag, baseContent, jar, now)
                ELSE OnDocumentCookie(access,
                         composePage(pageType, personaTag, baseContent, jar, now)))
    /\ prev' = Pending
    /\ heap' = HeapAfter(baseContent, last')
    /\ UNCHANGED <<bannerVars, classifierVars, storeVars, registryVars, quizVars>>

\* A further call of composePage with the arguments of the latest call.
ComposeAgain ==
    /\ args.called
    /\ args' = [args EXCEPT !.held = HeldTag(now), !.heldPrev = args.held]
    /\ last' = (IF TruthyTag(args.tag)
                THEN composePage(args.pageType, args.tag, args.base, jar, now)
                ELSE OnDocumentCookie(access,
                         composePage(args.pageType, args.tag, args.base, jar, now)))
    /\ prev' = last
    /\ heap' = HeapAfter(args.base, last')
    /\ UNCHANGED <<bannerVars, classifierVars, storeVars, registryVars, quizVars>>

\* A click on option optIdx of the step shown in a tab.  A disabled button
\* dispatches no click event.
Click(tab, optIdx) ==
    LET t == tabs[tab] IN
    /\ Waiting(t)
    /\ t.shown >= 0
    /\ optIdx < content.options
    /\ tabs' = [tabs EXCEPT ![tab] = IF t.disabled THEN t ELSE ClickListener(t, optIdx)]
    /\ UNCHANGED <<bannerVars, content, writes, classifierVars, storeVars, registryVars, assemblerVars>>

\* A timer of a tab fires: the answer callback runs up to the first cookie write,
\* or the next step is attached.
TimerFires(tab) ==
    LET t == tabs[tab] IN
    /\ Waiting(t)
    /\ \E i \in DOMAIN t.timers :
          LET timer == t.timers[i]
              rest == [t EXCEPT !.timers = RemoveAt(@, i)]
          IN  tabs' = [tabs EXCEPT ![tab] =
                          IF timer.kind = "answer"
                          THEN onAnswer(rest, timer.index, timer.optIdx, content.questions)
                          ELSE [rest EXCEPT !.shown = timer.index, !.disabled = FALSE]]
    /\ UNCHANGED <<bannerVars, content, writes, classifierVars, storeVars, registryVars, assemblerVars>>

\* The visitor opens the quiz page again in a tab that has been redirected: the
\* block is decorated afresh.  (The log of writes is kept to MaxWrites entries.)
Decorate(tab) ==
    /\ tabs[tab].pc = "redirected"
    /\ Len(writes) < MaxWrites
    /\ tabs' = [tabs EXCEPT ![tab] = Decorated(tabs[tab].block)]
    /\ UNCHANGED <<bannerVars, content, writes, classifierVars, storeVars, registryVars, assemblerVars>>

\* A page load of the session: decorate(block) of the banner block runs on the
\* new page; the timers of the page before are gone with it.  The record keeps
\* whether the cookie was live at the load and whether the visitor had clicked
\* dismiss before it.
BannerDecorate ==
    LET persona == OnDocumentCookie(access, getPersona(jar, now))
        display == IF IsThrow(persona) THEN "authored"
                   ELSE IF BannerHidden(persona.value, session) THEN "none"
                   ELSE "shown"
    IN  /\ banner' = [loaded |-> TRUE, display |-> display, hiding |-> FALSE, timers |-> 0,
                      result |-> IF IsThrow(persona) THEN persona ELSE Return(Undefined),
                      clicked |-> banner.clicked,
                      shownAtLoad |-> display = "shown",
                      cookieAtLoad |-> Live(jar[SlotOf(ARCO_PERSONA)], now),
                      afterClick |-> banner.clicked]
        /\ UNCHANGED <<session, classifierVars, storeVars, registryVars, assemblerVars,
                       quizVars>>

\* The click listener of the dismiss button of a banner that is shown.
DismissClick ==
    /\ banner.loaded
    /\ banner.display = "shown"
    /\ banner.timers < MaxTimers
    /\ banner' = [banner EXCEPT !.hiding = TRUE, !.timers = @ + 1, !.clicked = TRUE]
    /\ UNCHANGED <<session, classifierVars, storeVars, registryVars, assemblerVars,
                   quizVars>>

\* The 300 ms timer of a dismiss click fires: the banner is hidden and the
\* dismissal is stored; a failure of the storage is caught.
DismissTimerFires ==
    /\ banner.timers > 0
    /\ banner' = [banner EXCEPT !.display = "none", !.timers = @ - 1]
    /\ session' = SetItem(session, W("true"))
    /\ UNCHANGED <<classifierVars, storeVars, registryVars, assemblerVars, quizVars>>

\* One setCookie(name, value, days) of the completion of a quiz in a tab.
WriteCookie(tab, name, days, pcAfter) ==
    LET t == tabs[tab]
        result == OnDocumentCookie(access, Return(Undefined))
    IN  /\ jar' = (IF IsReturn(result) THEN setCookie(jar, name, t.persona, days, now) ELSE jar)
        /\ writes' = (IF IsReturn(result)
                      THEN Append(writes, [tab |-> tab, name |-> name, value |-> t.persona,
                                           days |-> days,
                                           held |-> jar'[SlotOf(name)].value])
                      ELSE writes)
        /\ tabs' = [tabs EXCEPT ![tab].pc = IF IsReturn(result) THEN pcAfter ELSE "failed"]
        /\ readout' = NoRead
        /\ UNCHANGED <<bannerVars, content, now, access, stored, classifierVars, registryVars,
                       assemblerVars>>

\* setCookie('arco_persona', persona, 90) of the 6-persona quiz
SetCanonicalCookie(tab) ==
    /\ tabs[tab].block = QUIZ
    /\ tabs[tab].pc = "classified"
    /\ WriteCookie(tab, ARCO_PERSONA, RetentionDays, "canonical")

\* setCookie('arco-brew-style', persona, 30) of the 6-persona quiz and
\* setCookie('arco-brew-style', result, 30) of the brew-style quiz
SetLegacyCookie(tab) ==
    /\ \/ tabs[tab].block = QUIZ /\ tabs[tab].pc = "canonical"
       \/ tabs[tab].block = BREW_STYLE /\ tabs[tab].pc = "classified"
    /\ WriteCookie(tab, ARCO_BREW_STYLE, LegacyRetentionDays, "legacy")

\* window.location.href = resultUrl / window.location.href = `/experiences/${result}`
Redirect(tab) ==
    LET t == tabs[tab] IN
    /\ t.pc = "legacy"
    /\ tabs' = [tabs EXCEPT ![tab].pc = "redirected",
                            ![tab].href = IF t.block = QUIZ THEN ResultUrl(t.persona)
                                          ELSE W("/experiences/") \o t.persona]
    /\ UNCHANGED <<bannerVars, content, writes, classifierVars, storeVars, registryVars, assemblerVars>>

(***************************************************************************)
(* Specifications.                                                         *)
(***************************************************************************)
InitClassify ==
    /\ answers \in AnswerVectors
    /\ scores = ZeroScores /\ winner = Pending /\ reached = {}
    /\ blockCall = NoBlockCall
    /\ StoreIdle /\ RegistryIdle /\ AssemblerIdle /\ BannerIdle /\ QuizIdle
NextClassify == CalculatePersona
SpecClassify == InitClassify /\ [][NextClassify]_vars

\* The exported calculatePersona and the quiz block's own are called on the same
\* answers, in either order.
BlockVectors == UNION {[1..n -> AnswerValues] : n \in 0..(Questions + 1)}
InitBlock ==
    /\ answers \in BlockVectors
    /\ scores = ZeroScores /\ winner = Pending /\ reached = {}
    /\ blockCall = NoBlockCall
    /\ StoreIdle /\ RegistryIdle /\ AssemblerIdle /\ BannerIdle /\ QuizIdle
NextBlock == CalculatePersona \/ BlockCalculatePersona
SpecBlock == InitBlock /\ [][NextBlock]_vars

\* calculatePersona is called on every fully answered vector, one after the other.
InitSurvey ==
    /\ answers = FirstVector
    /\ scores = ZeroScores /\ winner = Pending /\ reached = {}
    /\ blockCall = NoBlockCall
    /\ StoreIdle /\ RegistryIdle /\ AssemblerIdle /\ BannerIdle /\ QuizIdle
NextSurvey == CalculatePersona \/ NextVector
SpecSurvey == InitSurvey /\ [][NextSurvey]_vars

InitStore == ClassifierIdle /\ StoreIdle /\ RegistryIdle /\ AssemblerIdle /\ BannerIdle /\ QuizIdle
NextStore ==
    \/ \E personaTag \in StoreTags : SetPersonaCookie(personaTag)
    \/ GetPersonaFromCookie
    \/ \E t \in Instants : Tick(t)
SpecStore == InitStore /\ [][NextStore]_vars

\* The store in a document that may or may not use cookies, beside other writers
\* of the cookie.
InitStorage ==
    /\ access \in {"granted", "denied"}
    /\ now = Epoch /\ jar = EmptyJar /\ stored = NotStored /\ readout = NoRead
    /\ ClassifierIdle /\ RegistryIdle /\ AssemblerIdle /\ BannerIdle /\ QuizIdle
NextStorage ==
    \/ \E personaTag \in StoreTags : SetPersonaCookie(personaTag)
    \/ \E value \in ForeignValues : ForeignWrite(value)
    \/ GetPersonaFromCookie
    \/ \E t \in RetentionInstants : Tick(t)
SpecStorage == InitStorage /\ [][NextStorage]_vars

InitRegistry == ClassifierIdle /\ StoreIdle /\ RegistryIdle /\ AssemblerIdle /\ BannerIdle /\ QuizIdle
NextRegistry == \E personaTag \in RegistryTags, limit \in Limits : Lookup(personaTag, limit)
SpecRegistry == InitRegistry /\ [][NextRegistry]_vars

InitCompose == ClassifierIdle /\ StoreIdle /\ RegistryIdle /\ AssemblerIdle /\ BannerIdle /\ QuizIdle
NextCompose ==
    \/ \E personaTag \in ComposeStoreTags : SetPersonaCookie(personaTag)
    \/ \E t \in RetentionInstants : Tick(t)
    \/ \E pageType \in PageTypes, personaTag \in ComposeTags, baseContent \in BaseContents :
          ComposePage(pageType, personaTag, baseContent)
    \/ ComposeAgain
SpecCompose == InitCompose /\ [][NextCompose]_vars

\* One tab runs a quiz, of either block, while the canonical record is read.
InitQuiz ==
    /\ content \in [questions : 1..MaxQuestions, options : 1..MaxOptions]
    /\ \E block \in Blocks : tabs = [tab \in Tabs |-> IF tab = 1 THEN Decorated(block) ELSE NoTab]
    /\ writes = <<>>
    /\ ClassifierIdle /\ StoreIdle /\ RegistryIdle /\ AssemblerIdle /\ BannerIdle
NextQuiz ==
    \/ \E optIdx \in 0..(MaxOptions - 1) : Click(1, optIdx)
    \/ TimerFires(1)
    \/ SetCanonicalCookie(1)
    \/ SetLegacyCookie(1)
    \/ Redirect(1)
    \/ GetPersonaFromCookie
SpecQuiz == InitQuiz /\ [][NextQuiz]_vars

\* A site: the visitor takes the 6-persona quiz, again and again, time passes,
\* records expire, and pages are composed with a canonical tag or none.
InitSite ==
    /\ content \in [questions : 1..MaxTabQuestions, options : 1..MaxOptions]
    /\ tabs = [tab \in Tabs |-> IF tab = 1 THEN Decorated(QUIZ) ELSE NoTab]
    /\ writes = <<>>
    /\ ClassifierIdle /\ StoreIdle /\ RegistryIdle /\ AssemblerIdle /\ BannerIdle
NextSite ==
    \/ \E optIdx \in 0..(MaxOptions - 1) : Click(1, optIdx)
    \/ TimerFires(1)
    \/ SetCanonicalCookie(1)
    \/ SetLegacyCookie(1)
    \/ Redirect(1)
    \/ Decorate(1)
    \/ \E t \in RetentionInstants : Tick(t)
    \/ \E pageType \in PageTypes, personaTag \in SiteTags, baseContent \in SiteContents :
          ComposePage(pageType, personaTag, baseContent)
    \/ ComposeAgain
SpecSite == InitSite /\ [][NextSite]_vars

\* A visitor completes the 6-persona quiz, so that both records exist, pages are
\* composed and the canonical record is read, while time passes.
FrameContents == {PricedContent, NestedContent, UndefinedValue}
InitFrame ==
    /\ content \in [questions : 1..MaxTabQuestions, options : 1..MaxOptions]
    /\ tabs = [tab \in Tabs |-> IF tab = 1 THEN Decorated(QUIZ) ELSE NoTab]
    /\ writes = <<>>
    /\ ClassifierIdle /\ StoreIdle /\ RegistryIdle /\ AssemblerIdle /\ BannerIdle
NextFrame ==
    \/ \E optIdx \in 0..(MaxOptions - 1) : Click(1, optIdx)
    \/ TimerFires(1)
    \/ SetCanonicalCookie(1)
    \/ SetLegacyCookie(1)
    \/ Redirect(1)
    \/ \E t \in RetentionInstants : Tick(t)
    \/ \E pageType \in PageTypes, personaTag \in SiteTags, baseContent \in FrameContents :
          ComposePage(pageType, personaTag, baseContent)
    \/ ComposeAgain
    \/ GetPersonaFromCookie
SpecFrame == InitFrame /\ [][NextFrame]_vars

\* A browsing session: the persona cookie is written and expires, pages with the
\* banner are loaded, the visitor dismisses the banner.
BannerTags == {W("upgrader"), W("traveller")}
InitBanner ==
    /\ session \in [mode : StorageModes, item : {Null}]
    /\ banner = NoBanner
    /\ ClassifierIdle /\ StoreIdle /\ RegistryIdle /\ AssemblerIdle /\ QuizIdle
NextBanner ==
    \/ \E personaTag \in BannerTags : SetPersonaCookie(personaTag)
    \/ \E t \in RetentionInstants : Tick(t)
    \/ BannerDecorate
    \/ DismissClick
    \/ DismissTimerFires
SpecBanner == InitBanner /\ [][NextBanner]_vars

\* Two tabs run the 6-persona quiz over the same cookie jar.
InitTabs ==
    /\ content \in [questions : 1..MaxTabQuestions, options : 1..MaxOptions]
    /\ tabs = [tab \in Tabs |-> Decorated(QUIZ)]
    /\ writes = <<>>
    /\ ClassifierIdle /\ StoreIdle /\ RegistryIdle /\ AssemblerIdle /\ BannerIdle
NextTabs ==
    \/ \E tab \in Tabs, optIdx \in 0..(MaxOptions - 1) : Click(tab, optIdx)
    \/ \E tab \in Tabs : TimerFires(tab)
    \/ \E tab \in Tabs : SetCanonicalCookie(tab)
    \/ \E tab \in Tabs : SetLegacyCookie(tab)
    \/ \E tab \in Tabs : Redirect(tab)
    \/ GetPersonaFromCookie
SpecTabs == InitTabs /\ [][NextTabs]_vars

(***************************************************************************)
(* Properties of the classifier (SpecClassify).                            *)
(***************************************************************************)
Range(f) == {f[i] : i \in DOMAIN f}

\* C1: for every answer vector (any length, entries -1 and above, indices beyond
\* the authored options included) the call of calculatePersona returns, and what
\* it returns is one of the six declared PERSONAS.
C1_ReturnsDeclaredPersona ==
    winner # Pending =>
        /\ IsReturn(winner)
        /\ winner.value \in PersonaSet
        /\ Cardinality({i \in DOMAIN PERSONAS : PERSONAS[i] = winner.value}) = 1

\* A vector longer than the quiz, with an unanswered entry and an index beyond the
\* authored options, has been classified.
C1_Witness ==
    /\ IsReturn(winner)
    /\ Len(answers) > Len(SCORING)
    /\ -1 \in Range(answers)
    /\ 99 \in Range(answers)

\* C2: calculatePersona returns the lowest-indexed persona among those whose
\* accumulated score is maximal; when every entry is unanswered (or there is no
\* entry) all scores are zero and persona 0, morning-minimalist, is returned.
C2_LowestIndexedMaximum ==
    IsReturn(winner) =>
        /\ \E i \in DOMAIN PERSONAS :
              /\ winner.value = PERSONAS[i]
              /\ \A j \in DOMAIN scores : scores[j] <= scores[i]
              /\ \A j \in DOMAIN scores : j < i => scores[j] < scores[i]
        /\ (\A q \in DOMAIN answers : answers[q] = -1) =>
              /\ scores = ZeroScores
              /\ winner.value = W("morning-minimalist")

\* Two personas tie on a positive maximal score and the lower-indexed one has won.
C2_Witness ==
    /\ IsReturn(winner)
    /\ \E i, j \in DOMAIN PERSONAS :
          /\ i < j
          /\ scores[i] = scores[j]
          /\ scores[i] > 0
          /\ \A k \in DOMAIN scores : scores[k] <= scores[i]
          /\ winner.value = PERSONAS[i]

(***************************************************************************)
(* Properties of the persona store (SpecStore).                            *)
(***************************************************************************)
\* A read has completed after the latest write, and that write stored a canonical tag.
ReadAfterCanonicalWrite ==
    readout.done /\ stored.set /\ stored.tag \in PersonaSet

\* C3, as claimed: a read before the 90 days since the write have elapsed returns
\* the tag written, a read after that returns null.
C3_RoundTripWithinNinetyDays ==
    ReadAfterCanonicalWrite =>
        readout.result =
            (IF Before(readout.at, AddDays(stored.at, RetentionDays))
             THEN Return(stored.tag) ELSE Return(Null))

\* C3, amended: the record lives until the write instant plus 90 days rounded down
\* to the whole second.  A read before that instant returns the tag written; a
\* read at or after it, so every read once the 90 days have elapsed, returns null.
C3_RoundTripUntilExpiry ==
    ReadAfterCanonicalWrite =>
        /\ Before(readout.at, ExpiryOf(stored.at)) => readout.result = Return(stored.tag)
        /\ ~Before(readout.at, ExpiryOf(stored.at)) => readout.result = Return(Null)
        /\ ~Before(readout.at, AddDays(stored.at, RetentionDays)) =>
              readout.result = Return(Null)

\* A canonical tag written in mid-second has been read back at a later instant.
C3_Witness ==
    /\ ReadAfterCanonicalWrite
    /\ stored.at.ms > 0
    /\ Before(stored.at, readout.at)
    /\ readout.result = Return(stored.tag)

(***************************************************************************)
(* Properties of the assembler (SpecCompose).                              *)
(***************************************************************************)
\* The code takes null, undefined and the empty string for an absent tag.
AbsentTag(tag) == tag = Null \/ tag = Undefined \/ tag = <<>>

\* The effective persona of the latest call: the explicit tag, else the tag the
\* canonical record held when the call was made, else null.
Effective == IF ~AbsentTag(args.tag) THEN args.tag ELSE args.held

Result == last.value.obj
Base == IF IsObj(args.base) THEN args.base.obj ELSE <<>>

VariantFields == {"hero", "products", "blog_feed", "experience_cta", "nav_override"}
StampFields == {"_persona", "_assembled_at"}

\* C4: the effective persona is the explicit tag when that is not absent, whatever
\* the canonical record holds; otherwise the tag read from the canonical record;
\* otherwise absent, and then the call still returns.  The effective persona is
\* what the result is stamped with and what the homepage lookups are made for.
C4_ResolutionOrder ==
    args.called =>
        /\ (~AbsentTag(args.tag) /\ IsReturn(last)) =>
              Result["_persona"] = Str(args.tag)
        /\ (AbsentTag(args.tag) /\ args.held # Null /\ IsReturn(last)) =>
              Result["_persona"] = Str(args.held)
        /\ (AbsentTag(args.tag) /\ args.held = Null) =>
              IsReturn(last) /\ Result["_persona"] = NullValue
        /\ (args.pageType = "homepage" /\ IsReturn(last)) =>
              Result["experience_cta"] = getExperienceCTA(Effective).value

\* An explicit tag was given while the canonical record held another tag.
C4_Witness ==
    /\ args.called
    /\ IsReturn(last)
    /\ ~AbsentTag(args.tag)
    /\ args.held # Null
    /\ args.held # args.tag
    /\ Result["_persona"] = Str(args.tag)

\* The key of the table entry the effective persona selects.
EntryKey == IF Effective \in PersonaSet THEN Concat(Effective) ELSE "default"
Prefix(l, n) == [i \in 1..Min(n, Len(l)) |-> l[i]]

\* C5: a homepage result holds, in the five variant fields, the table entries of
\* the effective persona (the default entries when the persona is absent or not
\* recognised, the first three of a list), and every other field of baseContent
\* with its base value; the result has no field besides these and the two stamps.
C5_HomepageFields ==
    (args.called /\ args.pageType = "homepage" /\ IsReturn(last)) =>
        /\ Result["hero"] = HERO_VARIANTS[EntryKey]
        /\ Result["products"] = List(Prefix(PRODUCT_RECS[EntryKey].list, 3))
        /\ Result["blog_feed"] = List(Prefix(BLOG_FEEDS[EntryKey].list, 3))
        /\ Result["experience_cta"] = EXPERIENCE_CTAS[EntryKey]
        /\ Result["nav_override"] =
              (IF Effective \in PersonaSet THEN NAV_OVERRIDES[EntryKey] ELSE NavFallback)
        /\ \A k \in DOMAIN Base \ VariantFields : Result[k] = Base[k]
        /\ DOMAIN Result = DOMAIN Base \cup VariantFields \cup StampFields

\* A homepage was assembled for an unrecognised persona over content that authors
\* a hero and a product list of its own.
C5_Witness ==
    /\ args.called
    /\ args.pageType = "homepage"
    /\ IsReturn(last)
    /\ args.base = HomeContent
    /\ Effective = W("unknown-tag")
    /\ Result["hero"] = HERO_VARIANTS["default"]

\* The override entry baseContent carries for the effective persona.
HasOverride ==
    /\ Effective # Null
    /\ "persona_overrides" \in DOMAIN Base
    /\ IsObj(Base["persona_overrides"])
    /\ Concat(Effective) \in DOMAIN Base["persona_overrides"].obj
    /\ IsObj(Base["persona_overrides"].obj[Concat(Effective)])
Override == Base["persona_overrides"].obj[Concat(Effective)].obj

\* C6: on a product-detail page (pageType 'pdp'), when the effective persona is
\* present and baseContent carries an override entry for it, the call returns a
\* result in which every key of the override has the override's value, whole, and
\* every base key that is not in the override keeps its base value; for
\* { persona_overrides: { upgrader: { price: 10 } }, price: 20 } and upgrader the
\* price is 10.
C6_PdpOverride ==
    (args.called /\ args.pageType = "pdp" /\ HasOverride) =>
        /\ IsReturn(last)
        /\ \A k \in DOMAIN Override : Result[k] = Override[k]
        /\ \A k \in DOMAIN Base \ DOMAIN Override : Result[k] = Base[k]
        /\ (args.base = PricedContent /\ Effective = W("upgrader")) =>
              Result["price"] = Num(10)

\* The override of a nested field has replaced the base field whole, for a persona
\* read from the canonical record.
C6_Witness ==
    /\ args.called
    /\ args.pageType = "pdp"
    /\ HasOverride
    /\ IsReturn(last)
    /\ AbsentTag(args.tag)
    /\ args.base = NestedContent
    /\ Result["specs"] = Obj("weight" :> Num(11))
    /\ Result["price"] = Num(20)

\* C7: for every pageType (homepage, pdp, any other, one the code does not know),
\* a result of composePage carries _persona, set to the effective persona, or to
\* null when there is none.
C7_StampsPersona ==
    \A pageType \in PageTypes :
        (args.called /\ args.pageType = pageType /\ IsReturn(last)) =>
            /\ "_persona" \in DOMAIN Result
            /\ Result["_persona"] = (IF Effective = Null THEN NullValue ELSE Str(Effective))

\* A page of a type the code does not know was stamped with the persona read from
\* the canonical record.
C7_Witness ==
    /\ args.called
    /\ args.pageType = "product-detail"
    /\ IsReturn(last)
    /\ AbsentTag(args.tag)
    /\ args.held = W("upgrader")
    /\ Result["_persona"] = Str(W("upgrader"))

\* A completion without the assembly timestamp.
SansTimestamp(c) ==
    IF IsReturn(c)
    THEN Return(Obj([k \in DOMAIN c.value.obj \ {"_assembled_at"} |-> c.value.obj[k]]))
    ELSE c
SameCompletion(a, b) == a.type = b.type /\ a.value = b.value

\* C8, as claimed: two calls with the same (pageType, tag, baseContent), made at
\* any two points of a run, complete alike but for the assembly timestamp.
C8_SameArgumentsSameResult ==
    prev # Pending => SameCompletion(SansTimestamp(prev), SansTimestamp(last))

\* C8, amended: two calls with the same (pageType, tag, baseContent) complete alike
\* but for the assembly timestamp when the tag is not absent, or when the canonical
\* record reads the same at both calls.
C8_SameArgumentsSameRecord ==
    (prev # Pending /\ (~AbsentTag(args.tag) \/ args.held = args.heldPrev)) =>
        SameCompletion(SansTimestamp(prev), SansTimestamp(last))

\* A homepage was assembled twice for an explicit tag, at two instants, with the
\* canonical record changed in between.
C8_Witness ==
    /\ prev # Pending
    /\ IsReturn(prev) /\ IsReturn(last)
    /\ args.pageType = "homepage"
    /\ ~AbsentTag(args.tag)
    /\ args.held # args.heldPrev
    /\ prev.value.obj["_assembled_at"] # Result["_assembled_at"]

(***************************************************************************)
(* Properties of the variant tables (SpecRegistry).                        *)
(***************************************************************************)
\* C9, as claimed: in each of the five tables a lookup with a tag that is no
\* persona key completes as the lookup with an absent tag does, with the table's
\* default entry.
C9_UnknownTagIsDefault ==
    (lookup.type = "done" /\ lookup.tag \notin PersonaSet) =>
        /\ SameCompletion(lookup.hero, getHeroVariant(Null))
        /\ SameCompletion(lookup.hero, Return(HERO_VARIANTS["default"]))
        /\ SameCompletion(lookup.products, getProductRecommendations(Null, lookup.limit))
        /\ SameCompletion(lookup.blog, getBlogFeed(Null, lookup.limit))
        /\ SameCompletion(lookup.cta, getExperienceCTA(Null))
        /\ SameCompletion(lookup.cta, Return(EXPERIENCE_CTAS["default"]))
        /\ SameCompletion(lookup.nav, getNavigationOverride(Null))
        /\ SameCompletion(lookup.nav, Return(NavFallback))

\* The list a tag resolves to: its own list, or the default list of a tag that is
\* no persona key.
ResolvedList(table, tag) ==
    IF tag \in PersonaSet THEN table[Concat(tag)].list ELSE table["default"].list

\* A tag that names a property inherited by every object resolves to no list.
NamesInherited(tag) == ToPropertyKey(tag) \in DOMAIN ObjectPrototype

\* C10: for a limit of 0 or more, getProductRecommendations and getBlogFeed return
\* the first min(limit, length) elements of the resolved list, in order; a limit
\* at or above the length returns the whole list.
C10_LimitTakesPrefix ==
    (lookup.type = "done" /\ lookup.limit >= 0 /\ ~NamesInherited(lookup.tag)) =>
        /\ SameCompletion(lookup.products,
               Return(List(Prefix(ResolvedList(PRODUCT_RECS, lookup.tag), lookup.limit))))
        /\ SameCompletion(lookup.blog,
               Return(List(Prefix(ResolvedList(BLOG_FEEDS, lookup.tag), lookup.limit))))
        /\ lookup.limit >= Len(ResolvedList(PRODUCT_RECS, lookup.tag)) =>
               lookup.products = Return(List(ResolvedList(PRODUCT_RECS, lookup.tag)))
        /\ lookup.limit >= Len(ResolvedList(BLOG_FEEDS, lookup.tag)) =>
               lookup.blog = Return(List(ResolvedList(BLOG_FEEDS, lookup.tag)))

\* A limit above the length of both lists returned them whole, for a persona.
C10_Witness ==
    /\ lookup.type = "done"
    /\ lookup.tag = W("traveller")
    /\ lookup.limit > Len(PRODUCT_RECS["traveller"].list)
    /\ lookup.products = Return(PRODUCT_RECS["traveller"])
    /\ lookup.blog = Return(BLOG_FEEDS["traveller"])

\* C11, as claimed: for every limit of 0 or less, negative limits included,
\* getProductRecommendations and getBlogFeed return the empty list and do not throw.
C11_NonPositiveLimitIsEmpty ==
    (lookup.type = "done" /\ lookup.limit <= 0 /\ ~NamesInherited(lookup.tag)) =>
        /\ lookup.products = Return(List(<<>>))
        /\ lookup.blog = Return(List(<<>>))

(***************************************************************************)
(* Further properties of the persona store (SpecStore).                    *)
(***************************************************************************)
\* C14, as claimed: the canonical record, when present, holds one of the six
\* canonical tags; setPersonaCookie with a value outside the taxonomy stores nothing.
C14_CanonicalRecordInTaxonomy ==
    /\ jar[SlotOf(ARCO_PERSONA)].present =>
          \E p \in PersonaSet : jar[SlotOf(ARCO_PERSONA)].value = encodeURIComponent(p)
    /\ (stored.set /\ stored.tag \notin PersonaSet /\ stored.at = now) =>
          jar[SlotOf(ARCO_PERSONA)].value # encodeURIComponent(stored.tag)

(***************************************************************************)
(* Further properties of the assembler (SpecCompose).                      *)
(***************************************************************************)
\* C18, as claimed: for every pageType, every tag and every baseContent the call
\* of composePage returns an assembled object and does not throw.
C18_ComposePageTotal ==
    args.called => (IsReturn(last) /\ IsObj(last.value))

(***************************************************************************)
(* Further properties of the classifier (SpecClassify).                    *)
(***************************************************************************)
\* C19: an answer index above the last authored option is clamped to the last
\* option: for every position q whose entry is above 3 (99 included), the call
\* completes as the call with that entry replaced by 3 does.
C19_BeyondLastOptionIsLastOption ==
    winner # Pending =>
        \A q \in DOMAIN answers :
            answers[q] > LastOption(q) =>
                /\ IsReturn(winner)
                /\ winner = calculatePersona([answers EXCEPT ![q] = LastOption(q)])

\* An index of 99 sat on a question where option 3 wins a persona that option 0
\* would not have won.
C19_Witness ==
    /\ IsReturn(winner)
    /\ \E q \in DOMAIN SCORING :
          /\ q \in DOMAIN answers
          /\ answers[q] = 99
          /\ winner # calculatePersona([answers EXCEPT ![q] = 0])

Unanswered(n) == [i \in 1..n |-> -1]

\* C20: only the first four entries count: a vector longer than four completes as
\* its first four entries do, and a vector shorter than four completes as the
\* vector padded with -1 up to length four does.
C20_FirstFourEntriesCount ==
    winner # Pending =>
        /\ Len(answers) > Questions =>
              winner = calculatePersona(SubSeq(answers, 1, Questions))
        /\ Len(answers) < Questions =>
              winner = calculatePersona(answers \o Unanswered(Questions - Len(answers)))

\* A vector of five entries whose fifth entry is an answer has been classified,
\* and the first four entries decided the persona.
C20_Witness ==
    /\ IsReturn(winner)
    /\ Len(answers) > Questions
    /\ answers[Questions + 1] >= 0
    /\ winner.value # PERSONAS[1]

(***************************************************************************)
(* Properties of the store when storage fails (SpecStorage).               *)
(***************************************************************************)
\* The canonical record holds a value that decodeURIComponent cannot decode.
HoldsUndecodable ==
    /\ Live(jar[SlotOf(ARCO_PERSONA)], now)
    /\ IsThrow(decodeURIComponent(jar[SlotOf(ARCO_PERSONA)].value))

\* C15, as claimed: when access to the storage raises, or the storage holds a
\* value that cannot be decoded, setPersonaCookie stores nothing and does not
\* raise, and getPersonaFromCookie returns null and does not raise.
C15_StorageFailureIsSilent ==
    /\ (stored.result # Pending /\ access = "denied") =>
          stored.result = Return(Undefined)
    /\ (readout.done /\ (access = "denied" \/ HoldsUndecodable)) =>
          readout.result = Return(Null)

(***************************************************************************)
(* Properties of a quiz run (SpecQuiz).                                    *)
(***************************************************************************)
\* The cookie writes a tab has made, in the order made.
WritesOf(tab) == SelectSeq(writes, LAMBDA w : w.tab = tab)

\* C12, as claimed: every quiz completion (the redirect has been issued) has
\* classified the answers and then written both records, arco_persona with 90
\* days and arco-brew-style with 30 days of retention; no record is written
\* before the classification.
C12_CompletionWritesBothRecords ==
    \A tab \in Tabs :
        /\ WritesOf(tab) # <<>> => tabs[tab].calls # <<>>
        /\ tabs[tab].pc = "redirected" =>
              /\ tabs[tab].calls # <<>>
              /\ \E i, k \in DOMAIN WritesOf(tab) :
                    /\ WritesOf(tab)[i].name = ARCO_PERSONA
                    /\ WritesOf(tab)[i].days = RetentionDays
                    /\ WritesOf(tab)[k].name = ARCO_BREW_STYLE
                    /\ WritesOf(tab)[k].days = LegacyRetentionDays
              /\ jar[SlotOf(ARCO_PERSONA)].present
              /\ jar[SlotOf(ARCO_BREW_STYLE)].present

LegacySlugs == Range(EXPERIENCE_TAGS)

\* C13, as claimed: the legacy record arco-brew-style, when present, holds one of
\* the five legacy slugs, and after a completion of the 6-persona quiz it holds
\* the slug that slugMap gives for the canonical tag written.
C13_LegacyRecordHoldsLegacySlug ==
    jar[SlotOf(ARCO_BREW_STYLE)].present =>
        /\ \E slug \in LegacySlugs :
              jar[SlotOf(ARCO_BREW_STYLE)].value = encodeURIComponent(slug)
        /\ (tabs[1].block = QUIZ /\ tabs[1].pc \in {"legacy", "redirected"}) =>
              jar[SlotOf(ARCO_BREW_STYLE)].value =
                  encodeURIComponent(slugMap[Concat(tabs[1].persona)])

\* C16: in a quiz run calculatePersona is invoked at most once, and only after the
\* answer to the last question, on the vector of the options clicked, one per
\* question in question order (the clicks the page has taken are one per
\* question); while questions remain unanswered nothing is classified, no record
\* is written and a read of the canonical record returns null; a read that
\* returns a tag returns the classification of the complete vector.
C16_ClassifiedOnceOverAllAnswers ==
    LET t == tabs[1] IN
    /\ Len(t.calls) <= 1
    /\ \A i \in DOMAIN t.clicks : t.clicks[i].index = i - 1
    /\ t.calls # <<>> =>
          /\ Len(t.clicks) = content.questions
          /\ t.calls[1] = [i \in 1..content.questions |-> t.clicks[i].optIdx]
          /\ t.answers = t.calls[1]
          /\ t.block = QUIZ => t.persona = Block_calculatePersona(t.calls[1]).value
    /\ Len(t.answers) < content.questions =>
          /\ t.calls = <<>>
          /\ writes = <<>>
          /\ jar = EmptyJar
          /\ readout.done => readout.result = Return(Null)
    /\ (readout.done /\ readout.result # Return(Null)) =>
          /\ t.block = QUIZ
          /\ t.calls # <<>>
          /\ readout.result = calculatePersona(t.calls[1])
    /\ t.pc = "redirected" => Len(t.calls) = 1

\* A quiz of four questions has been answered, classified as another persona than
\* the first, and the record has been read after the redirect.
C16_Witness ==
    /\ tabs[1].block = QUIZ
    /\ tabs[1].pc = "redirected"
    /\ content.questions = Len(SCORING)
    /\ Len(tabs[1].calls) = 1
    /\ tabs[1].persona # PERSONAS[1]
    /\ readout.done
    /\ readout.result = Return(tabs[1].persona)

(***************************************************************************)
(* Properties of two tabs completing the quiz (SpecTabs).                  *)
(***************************************************************************)
CanonicalWrites == SelectSeq(writes, LAMBDA w : w.name = ARCO_PERSONA)
BothFinished == \A tab \in Tabs : tabs[tab].pc = "redirected"

\* C17: no write of a tab fails or is rejected (the record holds the value written
\* right after each write); when both tabs have finished, each has written the
\* canonical record once, and a read returns the tag of the canonical write made
\* last.
C17_LastWriteWins ==
    /\ \A i \in DOMAIN writes : writes[i].held = encodeURIComponent(writes[i].value)
    /\ \A tab \in Tabs : tabs[tab].pc # "failed"
    /\ BothFinished =>
          /\ Len(CanonicalWrites) = Cardinality(Tabs)
          /\ \A tab \in Tabs : \E i \in DOMAIN CanonicalWrites : CanonicalWrites[i].tab = tab
          /\ readout.done =>
                readout.result = Return(CanonicalWrites[Len(CanonicalWrites)].value)

\* Both tabs have finished with different tags, their writes interleaved: the tab
\* that wrote the canonical record last is not the one that wrote last.
C17_Witness ==
    /\ BothFinished
    /\ readout.done
    /\ Len(CanonicalWrites) = Cardinality(Tabs)
    /\ CanonicalWrites[1].value # CanonicalWrites[Len(CanonicalWrites)].value
    /\ CanonicalWrites[Len(CanonicalWrites)].tab # writes[Len(writes)].tab
    /\ readout.result = Return(CanonicalWrites[Len(CanonicalWrites)].value)

(***************************************************************************)
(* Worked examples of the classifier (SpecClassify).                       *)
(***************************************************************************)
\* C21: for the vector [0,0,0,0] the accumulated scores are morning-minimalist 5,
\* upgrader 1, craft-barista 0, traveller 0, non-barista 4, office-manager 0, and
\* the call returns morning-minimalist.
C21_AllFirstOptions ==
    (answers = <<0, 0, 0, 0>> /\ winner # Pending) =>
        /\ scores = <<5, 1, 0, 0, 4, 0>>
        /\ winner = Return(W("morning-minimalist"))

\* The vector [0,0,0,0] has been classified.
C21_Witness ==
    /\ answers = <<0, 0, 0, 0>>
    /\ IsReturn(winner)
    /\ scores[1] > scores[5]

\* C22: for the vector [3,3,3,3] the call returns non-barista.
C22_AllLastOptions ==
    (answers = <<3, 3, 3, 3>> /\ winner # Pending) =>
        winner = Return(W("non-barista"))

\* The vector [3,3,3,3] has been classified as the fifth persona.
C22_Witness ==
    /\ answers = <<3, 3, 3, 3>>
    /\ IsReturn(winner)
    /\ winner.value = PERSONAS[5]

\* C23, as claimed: for the vector [3,3,3,3] the non-barista score is 5 and every
\* other score is strictly lower.
C23_NonBaristaScoresFive ==
    (answers = <<3, 3, 3, 3>> /\ winner # Pending) =>
        /\ scores[5] = 5
        /\ \A j \in DOMAIN scores : j # 5 => scores[j] < scores[5]

\* C23, amended: for the vector [3,3,3,3] the non-barista score is 4 (2+2+0+0),
\* no score is higher, office-manager scores 4 as well (0+1+3+0), craft-barista 3,
\* the others 0; every persona before non-barista scores strictly lower.
C23_NonBaristaScoresFour ==
    (answers = <<3, 3, 3, 3>> /\ winner # Pending) =>
        /\ scores = <<0, 0, 3, 0, 4, 4>>
        /\ \A j \in DOMAIN scores : scores[j] <= scores[5]
        /\ \A j \in DOMAIN scores : j < 5 => scores[j] < scores[5]

\* The vector [3,3,3,3] has been scored, with non-barista and office-manager tied.
C23_Witness ==
    /\ answers = <<3, 3, 3, 3>>
    /\ winner # Pending
    /\ scores[5] = scores[6]
    /\ scores[5] > 0

(***************************************************************************)
(* Properties of the survey of the classifier (SpecSurvey).                *)
(***************************************************************************)
\* C30: every one of the six personas is returned for some fully answered vector
\* (four entries, each an option index 0..3): once the calls on all those vectors
\* have been made, the personas returned are all of PERSONAS.
C30_EveryPersonaReachable ==
    /\ reached \subseteq PersonaSet
    /\ (answers = LastVector /\ winner # Pending) => reached = PersonaSet
    /\ Len(answers) = Len(SCORING)
    /\ \A q \in DOMAIN answers : answers[q] \in 0..3

\* The survey has returned the two personas that only one option each favours.
C30_Witness ==
    /\ winner # Pending
    /\ W("traveller") \in reached
    /\ W("office-manager") \in reached
    /\ Cardinality(reached) = Len(PERSONAS)

(***************************************************************************)
(* The two copies of the classifier (SpecBlock).                           *)
(***************************************************************************)
\* C26: the quiz block's private calculatePersona and the exported one are
\* equivalent: called on the same answer vector they complete alike, with the same
\* score vector and the same persona tag.
C26_CopiesAgree ==
    (winner # Pending /\ blockCall.done) =>
        /\ blockCall.result = winner
        /\ IsReturn(winner) => blockCall.scores = scores

\* Both copies have classified a vector with an unanswered entry, an entry beyond
\* the options and an extra entry, and a persona other than the first came out.
C26_Witness ==
    /\ blockCall.done
    /\ IsReturn(winner)
    /\ Len(answers) > Len(SCORING)
    /\ \E q \in DOMAIN answers : answers[q] < 0
    /\ \E q \in DOMAIN answers : answers[q] > LastOption(q)
    /\ blockCall.result.value # Block_PERSONAS[1]

(***************************************************************************)
(* Pages that get no persona variant (SpecCompose).                        *)
(***************************************************************************)
\* The call is for a page type other than homepage and product-detail ('pdp'), or
\* for a product-detail page whose baseContent carries no override entry for the
\* effective persona (or there is no effective persona).
NoVariantCase ==
    \/ args.pageType \notin {"homepage", "pdp"}
    \/ args.pageType = "pdp" /\ ~HasOverride

\* C24: in that case a result has exactly the fields of baseContent, with their
\* base values, plus the two stamped fields; no variant field is added.
C24_OtherPagesKeepBase ==
    (args.called /\ NoVariantCase /\ IsReturn(last)) =>
        /\ DOMAIN Result = DOMAIN Base \cup StampFields
        /\ \A k \in DOMAIN Base \ StampFields : Result[k] = Base[k]
        /\ \A k \in VariantFields \ DOMAIN Base : k \notin DOMAIN Result

\* A guide page was assembled for a known persona over content that authors a hero
\* of its own, and a product-detail page over content with no entry for the
\* persona: the authored hero is in the result, the persona's is not.
C24_Witness ==
    /\ args.called
    /\ IsReturn(last)
    /\ Effective = W("craft-barista")
    /\ \/ args.pageType = "guide" /\ args.base = HomeContent
             /\ Result["hero"] = Text("authored hero")
       \/ args.pageType = "pdp" /\ args.base = PricedContent
             /\ Result["price"] = Num(20)

(***************************************************************************)
(* The two records after two tabs have completed the quiz (SpecTabs).      *)
(***************************************************************************)
LegacyWrites == SelectSeq(writes, LAMBDA w : w.name = ARCO_BREW_STYLE)
LastOf(seq) == seq[Len(seq)]
\* Both records hold what the completion of the quiz in the tab wrote.
DeriveFrom(tab) ==
    /\ jar[SlotOf(ARCO_PERSONA)].value = encodeURIComponent(tabs[tab].persona)
    /\ jar[SlotOf(ARCO_BREW_STYLE)].value = encodeURIComponent(tabs[tab].persona)
\* The two writes of one tab come before the two writes of the other.
NotInterleaved == writes[1].tab = writes[2].tab

\* C27, as claimed: once both tabs have finished their writes (no record expires
\* here), the canonical and the legacy record hold the results of one and the same
\* completion, however the completions interleaved.
C27_RecordsOfOneCompletion ==
    BothFinished => \E tab \in Tabs : DeriveFrom(tab)

\* C27, amended: once both tabs have finished, each record holds the value of the
\* last write made to it; the two records derive from one completion when the tab
\* that wrote the canonical record last also wrote the legacy record last, which
\* is so whenever the writes of the two tabs are not interleaved.
C27_EachRecordOfItsLastWrite ==
    BothFinished =>
        /\ Len(writes) = 2 * Cardinality(Tabs)
        /\ jar[SlotOf(ARCO_PERSONA)].value = encodeURIComponent(LastOf(CanonicalWrites).value)
        /\ jar[SlotOf(ARCO_BREW_STYLE)].value = encodeURIComponent(LastOf(LegacyWrites).value)
        /\ LastOf(CanonicalWrites).value = tabs[LastOf(CanonicalWrites).tab].persona
        /\ LastOf(LegacyWrites).value = tabs[LastOf(LegacyWrites).tab].persona
        /\ LastOf(CanonicalWrites).tab = LastOf(LegacyWrites).tab =>
              DeriveFrom(LastOf(LegacyWrites).tab)
        /\ NotInterleaved => LastOf(CanonicalWrites).tab = LastOf(LegacyWrites).tab

\* Both tabs have finished with different tags, the writes of one between the two
\* writes of the other: the canonical record holds the tag of one completion, the
\* legacy record the tag of the other.
C27_Witness ==
    /\ BothFinished
    /\ ~NotInterleaved
    /\ LastOf(CanonicalWrites).tab # LastOf(LegacyWrites).tab
    /\ tabs[1].persona # tabs[2].persona
    /\ jar[SlotOf(ARCO_PERSONA)].value = encodeURIComponent(tabs[LastOf(CanonicalWrites).tab].persona)
    /\ jar[SlotOf(ARCO_BREW_STYLE)].value = encodeURIComponent(tabs[LastOf(LegacyWrites).tab].persona)

(***************************************************************************)
(* Quiz completions, expiries and page loads (SpecSite).                   *)
(***************************************************************************)
CanonicalStamps == {NullValue} \cup {Str(tag) : tag \in PersonaSet}

\* C28: when only quiz completions write the canonical record and composePage is
\* called with a canonical tag or none, every result is stamped with a _persona
\* that is null or one of the six canonical tags, after any sequence of quiz
\* completions, expiries and page loads.
C28_StampIsCanonicalOrNull ==
    args.called =>
        /\ IsReturn(last)
        /\ "_persona" \in DOMAIN Result
        /\ Result["_persona"] \in CanonicalStamps
        /\ (prev # Pending /\ IsReturn(prev)) => prev.value.obj["_persona"] \in CanonicalStamps

\* A page composed without a tag was stamped with the tag a quiz completion wrote,
\* and, composed again after the record had expired, with null.
C28_Witness ==
    /\ args.called
    /\ AbsentTag(args.tag)
    /\ IsReturn(last) /\ prev # Pending /\ IsReturn(prev)
    /\ prev.value.obj["_persona"] = Str(tabs[1].persona)
    /\ tabs[1].persona \in PersonaSet
    /\ Result["_persona"] = NullValue
    /\ jar[SlotOf(ARCO_PERSONA)].present

C25_ShownIffPersonaAndNotDismissed ==
    banner.loaded =>
        /\ banner.shownAtLoad <=> (banner.cookieAtLoad /\ ~banner.afterClick)
        /\ IsReturn(banner.result)

====
